---- MODULE Spec2Model ----
(***************************************************************************)
(* Ingestion pipeline of the-mystaran: the persisted tables, the Batch     *)
(* Runner (server/api/scrap.ts), the Single-Link Runner (process-links     *)
(* handler) and the crawl handler with its utilities                       *)
(* (server/utils/crawler.ts).                                              *)
(*                                                                         *)
(* Storage is the relational port the handlers call: every call either     *)
(* returns an error (a constraint of the documented schema, or a fault of  *)
(* the port chosen nondeterministically) and changes nothing, or applies.  *)
(* Columns that no handler branches on (title, content, images, author,    *)
(* timestamps' values) are left out of the rows.                           *)
(***************************************************************************)
EXTENDS Integers, Sequences, FiniteSets, TLC

VARIABLES
  found_links,        \* set of rows [id, href, status, processed_at, created_at]
  articles,           \* set of rows [id, link, old_id]
  tags,               \* set of rows [id, name, slug, description]
  categories,         \* set of rows [id, name, description]
  article_tags,       \* set of <<article_id, tag_id>>
  article_categories, \* set of <<article_id, category_id>>
  comments,           \* set of rows [article_id, old_id]
  nextId,             \* next generated articles.id (uuid_generate_v4)
  sl,                 \* Single-Link Runner invocations: position and locals
  b,                  \* Batch Runner invocations: position and locals
  cr,                 \* crawl invocation: position and locals
  nextLinkId,         \* next generated found_links.id
  down,               \* URLs whose fetch fails (the network's answers are fixed)
  faulty,             \* whether the storage port can fail during a crawl
  nz,                 \* a caller of normalizeUrl: argument and returned value
  sc,                 \* a call of scrapeArticles: the page's date text and the result
  tc,                 \* Taxonomy Classifier invocation: position and locals
  quota               \* requests the clients have still to send

storageVars == <<found_links, articles, tags, categories, article_tags,
                 article_categories, comments, nextId>>
env == <<nextLinkId, down, faulty, nz, sc, tc, quota>>
vars == <<found_links, articles, tags, categories, article_tags,
          article_categories, comments, nextId, sl, b, cr, nextLinkId,
          down, faulty, nz, sc, tc, quota>>

----------------------------------------------------------------------------
(* Bounds *)

MaxProcs == 2        \* requests the server is serving at one time
MaxArticleIds == 3   \* article ids that can be generated in one behaviour
MaintRows == 3       \* records of a table with duplicate hrefs
MaxUrlLen == 4       \* tokens of a string given to normalizeUrl
MaxRequests == 2     \* requests the clients of a bounded scenario send

----------------------------------------------------------------------------
(* CrawlStatus enum *)

Pending == 0
Visited == 1
Error == 2
File == 4
Tag == 5
Category == 6
Article == 7

CrawlStatus == {Pending, Visited, Error, File, Tag, Category, Article}

NULL == "null"
STAMPED == "timestamp"

----------------------------------------------------------------------------
(* URLs are sequences of tokens; the string is their concatenation.        *)

HOST == "https://thealexandrian.net"

L1 == <<HOST, "/", "wordpress", "/", "1", "/", "a">>
L2 == <<HOST, "/", "wordpress", "/", "2", "/", "b">>
L3 == <<HOST, "/", "about">>

NoPage == [ok |-> FALSE, old_id |-> 0, link |-> <<>>, categories |-> <<>>,
           tags |-> <<>>, comments |-> <<>>]

(* What scrapeArticles extracts from the article page at url when the page *)
(* is served and has its container: old_id, the heading anchor's href,     *)
(* the category and tag display names, the comments' old_ids.              *)
SitePage(url) ==
  CASE url = L1 -> [ok |-> TRUE, old_id |-> 1, link |-> L1,
                    categories |-> <<"Theory">>, tags |-> <<"Rpg", "Gm">>,
                    comments |-> <<101>>]
    [] url = L2 -> [ok |-> TRUE, old_id |-> 2, link |-> L2,
                    categories |-> <<"Theory">>, tags |-> <<"Rpg">>,
                    comments |-> <<>>]
    [] OTHER -> NoPage

(* the container lookup's result is not checked: the extraction goes on    *)
(* with whatever the page yields                                           *)
scrapeArticles_NoThrow(url) == {[ok |-> TRUE, page |-> SitePage(url)]}

(* scrapeArticles(url): the fetch or the container lookup throws, or the   *)
(* page's data is returned.                                                *)
scrapeArticles(url) ==
  {[ok |-> FALSE, msg |-> "Article container not found"]}
    \cup (IF SitePage(url).ok THEN {[ok |-> TRUE, page |-> SitePage(url)]} ELSE {})

Range(s) == {s[k] : k \in 1..Len(s)}

(* The text of '.itemhead .chronodata' is a sequence of three tokens,      *)
(* month, day and year ("January 1st, 2020"), or empty when the element is *)
(* missing.                                                                *)
MonthNumber(month) ==
  CASE month = "January" -> "01"
    [] month = "February" -> "02"
    [] OTHER -> ""

DayNumber(day) ==
  CASE day = "1st" -> "01"
    [] day = "22nd" -> "22"
    [] OTHER -> ""

YearNumber(year) ==
  CASE year = "2020" -> "2020"
    [] year = "2021" -> "2021"
    [] OTHER -> ""

(* parse(created_at_raw, 'MMMM do, yyyy', new Date()): a Date, which is    *)
(* Invalid Date when the text does not match the format; parse throws for  *)
(* no text                                                                 *)
parse(created_at_raw) ==
  IF /\ Len(created_at_raw) = 3
     /\ MonthNumber(created_at_raw[1]) # ""
     /\ DayNumber(created_at_raw[2]) # ""
     /\ YearNumber(created_at_raw[3]) # ""
  THEN [valid |-> TRUE, year |-> YearNumber(created_at_raw[3]),
        month |-> MonthNumber(created_at_raw[1]), day |-> DayNumber(created_at_raw[2])]
  ELSE [valid |-> FALSE, year |-> "", month |-> "", day |-> ""]

(* format(date, 'yyyy-MM-dd') *)
format(date) == date.year \o "-" \o date.month \o "-" \o date.day

(* scrapeArticles, step 4: created_at starts as '' and is assigned only    *)
(* when the parsed date is valid; the catch, which assigns the current     *)
(* date, runs only if parse or format throws                               *)
ArticleCreatedAt(created_at_raw, today) ==
  IF parse(created_at_raw).valid THEN format(parse(created_at_raw)) ELSE ""

ScIdle == [pc |-> "idle", raw |-> <<>>, today |-> "", created_at |-> "",
           threw |-> FALSE]

(* the creation-date step of one scrapeArticles call *)
ExtractDate ==
  /\ sc.pc = "called"
  /\ sc' = [sc EXCEPT !.pc = "returned",
                      !.created_at = ArticleCreatedAt(sc.raw, sc.today),
                      !.threw = FALSE]
  /\ UNCHANGED <<found_links, articles, tags, categories, article_tags,
                 article_categories, comments, nextId, sl, b, cr,
                 nextLinkId, down, faulty, nz, tc, quota>>

Perms(S) ==
  {s \in [1..Cardinality(S) -> S] : \A x, y \in 1..Cardinality(S) : s[x] = s[y] => x = y}

----------------------------------------------------------------------------
(* Slugs generated by the two runners.                                     *)

(* scrap.ts: tagName.toLowerCase().replace(/\s+/g, '-') *)
BatchSlug(name) ==
  CASE name = "Rpg" -> "rpg"
    [] name = "Gm" -> "gm"
    [] OTHER -> name

(* process-links: tagName.toLowerCase().replace(/[^a-z0-9]+/g, '-') *)
SingleSlug(name) ==
  CASE name = "Rpg" -> "rpg"
    [] name = "Gm" -> "gm"
    [] OTHER -> name

----------------------------------------------------------------------------
(* The storage port.                                                       *)

(* articles.insert: link UNIQUE NOT NULL, old_id UNIQUE *)
ArticleInsertConflict(link, old_id) ==
  \E a \in articles : a.link = link \/ a.old_id = old_id

(* the existence check left out: no Article is ever reported *)
ExistingArticle_NoCheck(href) == {}

(* .from('articles').select('id').eq('link', href).single(): a row only    *)
(* when exactly one matches                                                *)
ExistingArticle(href) ==
  LET m == {a \in articles : a.link = href}
  IN IF Cardinality(m) = 1 THEN m ELSE {}

(* articles.delete().eq('link', href), with ON DELETE CASCADE *)
ArticlesAfterDelete(href) == {a \in articles : a.link # href}
DeletedIds(href) == {a.id : a \in {x \in articles : x.link = href}}

TagByName(name) == CHOOSE t \in tags : t.name = name
CategoryByName(name) == CHOOSE c \in categories : c.name = name

(* found_links.update({processed_at}).eq('id', id) *)
StampProcessed_MarksVisited(id) ==
  {IF r.id = id THEN [r EXCEPT !.processed_at = STAMPED, !.status = Visited] ELSE r :
     r \in found_links}

StampProcessed(id) ==
  {IF r.id = id THEN [r EXCEPT !.processed_at = STAMPED] ELSE r : r \in found_links}

(* select ... .eq('status', Article).is('processed_at', null) *)
UnprocessedArticleLinks ==
  {r \in found_links : r.status = Article /\ r.processed_at = NULL}

(* the select without its order: limit(1) returns any matching row *)
OldestUnprocessed_AnyRow == UnprocessedArticleLinks

(* ... .order('created_at', {ascending: true}).limit(1) *)
OldestUnprocessed ==
  {r \in UnprocessedArticleLinks :
     \A q \in UnprocessedArticleLinks : r.created_at <= q.created_at}

----------------------------------------------------------------------------
(* Errors a handler can catch.  inst: the value is an instance of Error;   *)
(* mentions: its message includes the text 'article.id'.                   *)

Errs == [inst : BOOLEAN, mentions : BOOLEAN]

(* an error the port returns for a violated constraint: the message is the *)
(* database's and does not include 'article.id'                            *)
ConstraintError == {e \in Errs : ~e.mentions}

(* any other error of the port or of the runtime: any message *)
FaultError == Errs

NoErr == [inst |-> FALSE, mentions |-> FALSE]

TagNames == {"Rpg", "Gm"}

NoStage == [n \in TagNames |-> "none"]

SLIdle == [pc |-> "idle", link |-> [id |-> "", href |-> <<>>], page |-> NoPage,
           art |-> 0, stage |-> NoStage, err |-> NoErr, res |-> "",
           inserted |-> FALSE, ret |-> "ok"]

BIdle == [pc |-> "idle", links |-> <<>>, i |-> 0, page |-> NoPage, art |-> 0,
          k |-> 0, results |-> <<>>, processed |-> 0]

Procs == 1..MaxProcs

(* the requests being served: each from its arrival to its response *)
Serving ==
  Cardinality({i \in Procs : sl[i].pc \notin {"idle", "done"}})
    + Cardinality({j \in Procs : b[j].pc \notin {"idle", "done"}})
    + (IF cr.pc \in {"idle", "done"} THEN 0 ELSE 1)
    + (IF tc.pc \in {"idle", "done"} THEN 0 ELSE 1)

(* the quota of clients that never stop sending *)
Unmetered == MaxRequests + 1

(* a request arrives: the clients have one to send and fewer than MaxProcs *)
(* are being served                                                        *)
Arrives == Serving < MaxProcs /\ quota > 0

(* the quota after an arrival *)
Sent == IF quota = Unmetered THEN quota ELSE quota - 1

(* the server's one thread is not held: no crawl is in the file branch of  *)
(* its loop, which never awaits                                            *)
Yielded == cr.pc # "spin"

----------------------------------------------------------------------------
(* Single-Link Runner: the process-links handler.                          *)

(* PHASE 1: select the oldest unprocessed Article link *)
SL_Select(i) ==
  /\ Yielded
  /\ sl[i].pc = "idle"
  /\ \A h \in 1..(i - 1) : sl[h].pc # "idle"
  /\ Arrives
  /\ \/ sl' = [sl EXCEPT ![i].pc = "done", ![i].res = "throw"]
     \/ /\ UnprocessedArticleLinks = {}
        /\ sl' = [sl EXCEPT ![i].pc = "done",
                            ![i].res = "No unprocessed links found"]
     \/ \E r \in OldestUnprocessed :
          sl' = [sl EXCEPT ![i].pc = "check",
                           ![i].link = [id |-> r.id, href |-> r.href]]
  /\ quota' = Sent
  /\ UNCHANGED <<storageVars, nextLinkId, down, faulty, nz, sc, tc, b, cr>>

(* PHASE 2: existence check; the query's error is not read, so a failed    *)
(* query looks like "no article"                                           *)
SL_Check(i) ==
  /\ Yielded
  /\ sl[i].pc = "check"
  /\ \E queryOk \in BOOLEAN :
       sl' = [sl EXCEPT ![i].pc =
                IF queryOk /\ ExistingArticle(sl[i].link.href) # {}
                THEN "stampExisting" ELSE "scrape",
              ![i].ret = IF queryOk THEN "ok" ELSE "error"]
  /\ UNCHANGED <<storageVars, env, b, cr>>

(* existing-article branch: stamp processed_at (error not read), return *)
SL_StampExisting(i) ==
  /\ Yielded
  /\ sl[i].pc = "stampExisting"
  /\ \E writeOk \in BOOLEAN :
       /\ found_links' = IF writeOk THEN StampProcessed(sl[i].link.id) ELSE found_links
       /\ sl' = [sl EXCEPT ![i].pc = "done", ![i].res = "Article already exists",
                           ![i].ret = IF writeOk THEN "ok" ELSE "error"]
  /\ UNCHANGED <<articles, tags, categories, article_tags, article_categories,
                 comments, nextId, env, b, cr>>

(* PHASE 3: scrape; a throw here is outside the inner try *)
SL_Scrape(i) ==
  /\ Yielded
  /\ sl[i].pc = "scrape"
  /\ \E r \in scrapeArticles(sl[i].link.href) :
       sl' = IF r.ok
             THEN [sl EXCEPT ![i].pc = "insert", ![i].page = r.page]
             ELSE [sl EXCEPT ![i].pc = "done", ![i].res = "throw"]
  /\ UNCHANGED <<storageVars, env, b, cr>>

SL_Issued(page) ==
  [n \in TagNames |-> IF n \in Range(page.tags) THEN "upsert" ELSE "none"]

(* PHASE 4 step 1: insert the Article with link: link.href; on success     *)
(* Promise.all issues every tag upsert at once                             *)
SL_InsertArticle(i) ==
  /\ Yielded
  /\ sl[i].pc = "insert"
  /\ \/ /\ \E e \in (IF ArticleInsertConflict(sl[i].link.href, sl[i].page.old_id)
                     THEN ConstraintError ELSE FaultError) :
             sl' = [sl EXCEPT ![i].pc = "catch", ![i].err = e]
        /\ UNCHANGED <<articles, nextId>>
     \/ /\ ~ArticleInsertConflict(sl[i].link.href, sl[i].page.old_id)
        /\ nextId <= MaxArticleIds
        /\ articles' = articles \cup
             {[id |-> nextId, link |-> sl[i].link.href, old_id |-> sl[i].page.old_id]}
        /\ nextId' = nextId + 1
        /\ sl' = [sl EXCEPT ![i].pc = "tags", ![i].art = nextId,
                            ![i].inserted = TRUE,
                            ![i].stage = SL_Issued(sl[i].page)]
  /\ UNCHANGED <<found_links, tags, categories, article_tags, article_categories,
                 comments, env, b, cr>>

(* Promise.all rejects with the first rejection; the handler is then in    *)
(* the catch while the other callbacks keep running                        *)
SL_Reject(i, n, e) ==
  IF sl[i].pc = "tags"
  THEN [sl EXCEPT ![i].stage[n] = "failed", ![i].pc = "catch", ![i].err = e]
  ELSE [sl EXCEPT ![i].stage[n] = "failed"]

TagDescription(n) == "Tag for " \o n

(* tags.upsert({name, description, slug}) with no onConflict: the conflict *)
(* target is the primary key, so an existing name or slug is a violation   *)
SL_TagUpsert(i, n) ==
  /\ Yielded
  /\ sl[i].pc \in {"tags", "catch", "done"}
  /\ sl[i].stage[n] = "upsert"
  /\ \/ /\ \E e \in (IF \E t \in tags : t.name = n \/ t.slug = SingleSlug(n)
                     THEN ConstraintError ELSE FaultError) :
             sl' = SL_Reject(i, n, e)
        /\ UNCHANGED tags
     \/ /\ ~\E t \in tags : t.name = n \/ t.slug = SingleSlug(n)
        /\ tags' = tags \cup {[id |-> Cardinality(tags) + 1, name |-> n,
                               slug |-> SingleSlug(n),
                               description |-> TagDescription(n)]}
        /\ sl' = [sl EXCEPT ![i].stage[n] = "link"]
  /\ UNCHANGED <<found_links, articles, categories, article_tags,
                 article_categories, comments, nextId, env, b, cr>>

(* article_tags.upsert({article_id, tag_id}) *)
SL_TagLink(i, n) ==
  /\ Yielded
  /\ sl[i].pc \in {"tags", "catch", "done"}
  /\ sl[i].stage[n] = "link"
  /\ \/ /\ \E e \in (IF ~\E a \in articles : a.id = sl[i].art
                     THEN ConstraintError ELSE FaultError) :
             sl' = SL_Reject(i, n, e)
        /\ UNCHANGED article_tags
     \/ /\ \E a \in articles : a.id = sl[i].art
        /\ article_tags' = article_tags \cup {<<sl[i].art, TagByName(n).id>>}
        /\ sl' = [sl EXCEPT ![i].stage[n] = "done"]
  /\ UNCHANGED <<found_links, articles, tags, categories, article_categories,
                 comments, nextId, env, b, cr>>

(* step 3: stamp processed_at once every tag callback has resolved *)
SL_Stamp(i) ==
  /\ Yielded
  /\ sl[i].pc = "tags"
  /\ \A n \in TagNames : sl[i].stage[n] \in {"none", "done"}
  /\ \/ /\ \E e \in FaultError : sl' = [sl EXCEPT ![i].pc = "catch", ![i].err = e]
        /\ UNCHANGED found_links
     \/ /\ found_links' = StampProcessed(sl[i].link.id)
        /\ sl' = [sl EXCEPT ![i].pc = "done",
                            ![i].res = "Successfully processed link"]
  /\ UNCHANGED <<articles, tags, categories, article_tags, article_categories,
                 comments, nextId, env, b, cr>>

(* the guard of the compensating delete *)
ShouldCleanUp(e) == e.inst /\ e.mentions

(* PHASE 5: catch (processingError): conditional delete by link (its error *)
(* is not read), then re-throw                                             *)
SL_Catch(i) ==
  /\ Yielded
  /\ sl[i].pc = "catch"
  /\ \E deleteOk \in BOOLEAN :
       IF ShouldCleanUp(sl[i].err) /\ deleteOk
       THEN /\ articles' = ArticlesAfterDelete(sl[i].link.href)
            /\ article_tags' =
                 {j \in article_tags : j[1] \notin DeletedIds(sl[i].link.href)}
            /\ article_categories' =
                 {j \in article_categories : j[1] \notin DeletedIds(sl[i].link.href)}
            /\ comments' =
                 {c \in comments : c.article_id \notin DeletedIds(sl[i].link.href)}
       ELSE UNCHANGED <<articles, article_tags, article_categories, comments>>
  /\ sl' = [sl EXCEPT ![i].pc = "done", ![i].res = "throw", ![i].err = NoErr]
  /\ UNCHANGED <<found_links, tags, categories, nextId, env, b, cr>>

(* the response has been sent and the callbacks that Promise.all left     *)
(* running have ended: the slot serves the next request                    *)
SL_Return(i) ==
  /\ Yielded
  /\ sl[i].pc = "done"
  /\ \A n \in TagNames : sl[i].stage[n] \notin {"upsert", "link"}
  /\ sl' = [sl EXCEPT ![i] = SLIdle]
  /\ UNCHANGED <<storageVars, env, b, cr>>

(* one invocation, from the request to the response *)
SL_Invocation(i) ==
  \/ SL_Select(i) \/ SL_Check(i) \/ SL_StampExisting(i) \/ SL_Scrape(i)
  \/ SL_InsertArticle(i) \/ (\E n \in TagNames : SL_TagUpsert(i, n))
  \/ (\E n \in TagNames : SL_TagLink(i, n)) \/ SL_Stamp(i) \/ SL_Catch(i)

SingleLinkRunner == \E i \in Procs : SL_Invocation(i) \/ SL_Return(i)

----------------------------------------------------------------------------
(* Batch Runner: the scrap handler.                                        *)

(* one iteration of for (const link of links) is over: its result is       *)
(* pushed and the loop moves to the next link or to the return             *)
B_Push(j, status, msg) ==
  [b[j] EXCEPT !.results = Append(b[j].results,
                               [url |-> b[j].links[b[j].i].href, status |-> status,
                                error |-> msg]),
            !.i = b[j].i + 1,
            !.pc = IF b[j].i + 1 <= Len(b[j].links) THEN "scrape" ELSE "return",
            !.page = NoPage, !.art = 0, !.k = 0]

(* the catch pushes the entry and leaves the loop *)
B_Fail_Abort(j, msg) ==
  [b[j] EXCEPT !.results = Append(b[j].results,
                               [url |-> b[j].links[b[j].i].href, status |-> "error",
                                error |-> msg]),
            !.pc = "return"]

(* the catch of the per-link try *)
B_Fail(j, msg) == B_Push(j, "error", msg)

(* 1. select the unprocessed Article links (no order, error not read) *)
B_Select(j) ==
  /\ Yielded
  /\ b[j].pc = "idle"
  /\ \A h \in 1..(j - 1) : b[h].pc # "idle"
  /\ Arrives
  /\ \E queryOk \in BOOLEAN :
       IF ~queryOk \/ UnprocessedArticleLinks = {}
       THEN b' = [b EXCEPT ![j].pc = "return"]
       ELSE \E order \in Perms(UnprocessedArticleLinks) :
              b' = [b EXCEPT ![j].pc = "scrape", ![j].i = 1,
                             ![j].links = [x \in 1..Len(order) |->
                                         [id |-> order[x].id, href |-> order[x].href]]]
  /\ quota' = Sent
  /\ UNCHANGED <<storageVars, nextLinkId, down, faulty, nz, sc, tc, sl, cr>>

B_Scrape(j) ==
  /\ Yielded
  /\ b[j].pc = "scrape"
  /\ \E r \in scrapeArticles(b[j].links[b[j].i].href) :
       b' = IF r.ok
            THEN [b EXCEPT ![j].pc = "insert", ![j].page = r.page]
            ELSE [b EXCEPT ![j] = B_Fail(j, r.msg)]
  /\ UNCHANGED <<storageVars, env, sl, cr>>

(* insert {old_id, title, link: article.link, ...}: no existence check *)
B_InsertArticle(j) ==
  /\ Yielded
  /\ b[j].pc = "insert"
  /\ \/ /\ b' = [b EXCEPT ![j] = B_Fail(j, "Failed to save article")]
        /\ UNCHANGED <<articles, nextId>>
     \/ /\ ~ArticleInsertConflict(b[j].page.link, b[j].page.old_id)
        /\ nextId <= MaxArticleIds
        /\ articles' = articles \cup
             {[id |-> nextId, link |-> b[j].page.link, old_id |-> b[j].page.old_id]}
        /\ nextId' = nextId + 1
        /\ b' = [b EXCEPT ![j].pc = "categories", ![j].art = nextId, ![j].k = 1]
  /\ UNCHANGED <<found_links, tags, categories, article_tags, article_categories,
                 comments, env, sl, cr>>

(* categories.upsert({name, description: ''}, {onConflict: 'name'}) *)
CategoryUpsert(name) ==
  IF \E c \in categories : c.name = name
  THEN {IF c.name = name THEN [c EXCEPT !.description = ""] ELSE c : c \in categories}
  ELSE categories \cup {[id |-> Cardinality(categories) + 1, name |-> name,
                         description |-> ""]}

B_CategoryUpsert(j) ==
  /\ Yielded
  /\ b[j].pc = "categories"
  /\ b[j].k <= Len(b[j].page.categories)
  /\ \/ /\ b' = [b EXCEPT ![j] = B_Fail(j, "Failed to save category")]
        /\ UNCHANGED categories
     \/ /\ categories' = CategoryUpsert(b[j].page.categories[b[j].k])
        /\ b' = [b EXCEPT ![j].pc = "categoryLink"]
  /\ UNCHANGED <<found_links, articles, tags, article_tags, article_categories,
                 comments, nextId, env, sl, cr>>

(* article_categories.insert({article_id, category_id}) *)
B_CategoryLink(j) ==
  /\ Yielded
  /\ b[j].pc = "categoryLink"
  /\ \/ /\ b' = [b EXCEPT ![j] = B_Fail(j, "Failed to link article to category")]
        /\ UNCHANGED article_categories
     \/ /\ \E a \in articles : a.id = b[j].art
        /\ <<b[j].art, CategoryByName(b[j].page.categories[b[j].k]).id>> \notin article_categories
        /\ article_categories' = article_categories \cup
             {<<b[j].art, CategoryByName(b[j].page.categories[b[j].k]).id>>}
        /\ b' = [b EXCEPT ![j].pc = "categories", ![j].k = b[j].k + 1]
  /\ UNCHANGED <<found_links, articles, tags, categories, article_tags,
                 comments, nextId, env, sl, cr>>

B_CategoriesDone(j) ==
  /\ Yielded
  /\ b[j].pc = "categories"
  /\ b[j].k > Len(b[j].page.categories)
  /\ b' = [b EXCEPT ![j].pc = "tags", ![j].k = 1]
  /\ UNCHANGED <<storageVars, env, sl, cr>>

(* tags.upsert({name, description: '', slug}, {onConflict: 'name'}); slug  *)
(* is UNIQUE too                                                           *)
TagUpsertConflict(name, slug) ==
  \E t \in tags : t.name # name /\ t.slug = slug

TagUpsert(name, slug) ==
  IF \E t \in tags : t.name = name
  THEN {IF t.name = name THEN [t EXCEPT !.description = "", !.slug = slug] ELSE t :
          t \in tags}
  ELSE tags \cup {[id |-> Cardinality(tags) + 1, name |-> name, slug |-> slug,
                   description |-> ""]}

B_TagUpsert(j) ==
  /\ Yielded
  /\ b[j].pc = "tags"
  /\ b[j].k <= Len(b[j].page.tags)
  /\ \/ /\ b' = [b EXCEPT ![j] = B_Fail(j, "Failed to save tag")]
        /\ UNCHANGED tags
     \/ /\ ~TagUpsertConflict(b[j].page.tags[b[j].k], BatchSlug(b[j].page.tags[b[j].k]))
        /\ tags' = TagUpsert(b[j].page.tags[b[j].k], BatchSlug(b[j].page.tags[b[j].k]))
        /\ b' = [b EXCEPT ![j].pc = "tagLink"]
  /\ UNCHANGED <<found_links, articles, categories, article_tags,
                 article_categories, comments, nextId, env, sl, cr>>

(* article_tags.insert({article_id, tag_id}) *)
B_TagLink(j) ==
  /\ Yielded
  /\ b[j].pc = "tagLink"
  /\ \/ /\ b' = [b EXCEPT ![j] = B_Fail(j, "Failed to link article to tag")]
        /\ UNCHANGED article_tags
     \/ /\ \E a \in articles : a.id = b[j].art
        /\ <<b[j].art, TagByName(b[j].page.tags[b[j].k]).id>> \notin article_tags
        /\ article_tags' = article_tags \cup
             {<<b[j].art, TagByName(b[j].page.tags[b[j].k]).id>>}
        /\ b' = [b EXCEPT ![j].pc = "tags", ![j].k = b[j].k + 1]
  /\ UNCHANGED <<found_links, articles, tags, categories, article_categories,
                 comments, nextId, env, sl, cr>>

(* after the tags the runner goes to the stamp, before the comments *)
B_TagsDone_StampsFirst(j) ==
  /\ Yielded
  /\ b[j].pc = "tags"
  /\ b[j].k > Len(b[j].page.tags)
  /\ b' = [b EXCEPT ![j].pc = "stamp"]
  /\ UNCHANGED <<storageVars, env, sl, cr>>

B_TagsDone(j) ==
  /\ Yielded
  /\ b[j].pc = "tags"
  /\ b[j].k > Len(b[j].page.tags)
  /\ b' = [b EXCEPT ![j].pc = "comments"]
  /\ UNCHANGED <<storageVars, env, sl, cr>>

(* a failed comments insert deletes the Article it belongs to *)
B_Comments_Rollback(j) ==
  /\ Yielded
  /\ b[j].pc = "comments"
  /\ \/ /\ b' = [b EXCEPT ![j] = B_Fail(j, "Failed to save comments")]
        /\ articles' = {a \in articles : a.id # b[j].art}
        /\ UNCHANGED comments
     \/ /\ b[j].page.comments = <<>> \/ \E a \in articles : a.id = b[j].art
        /\ comments' = comments \cup
             {[article_id |-> b[j].art, old_id |-> c] : c \in Range(b[j].page.comments)}
        /\ b' = [b EXCEPT ![j].pc = "stamp"]
        /\ UNCHANGED articles
  /\ UNCHANGED <<found_links, tags, categories, article_tags,
                 article_categories, nextId, env, sl, cr>>

(* comments.insert(commentsWithRef): every row refers to the Article, so   *)
(* an insert of rows needs it stored; an insert of no row checks nothing   *)
B_Comments(j) ==
  /\ Yielded
  /\ b[j].pc = "comments"
  /\ \/ /\ b' = [b EXCEPT ![j] = B_Fail(j, "Failed to save comments")]
        /\ UNCHANGED comments
     \/ /\ b[j].page.comments = <<>> \/ \E a \in articles : a.id = b[j].art
        /\ comments' = comments \cup
             {[article_id |-> b[j].art, old_id |-> c] : c \in Range(b[j].page.comments)}
        /\ b' = [b EXCEPT ![j].pc = "stamp"]
  /\ UNCHANGED <<found_links, articles, tags, categories, article_tags,
                 article_categories, nextId, env, sl, cr>>

(* found_links.update({processed_at}).eq('id', link.id), then the success  *)
(* entry                                                                   *)
B_Stamp(j) ==
  /\ Yielded
  /\ b[j].pc = "stamp"
  /\ \/ /\ b' = [b EXCEPT ![j] = B_Fail(j, "Failed to update link status")]
        /\ UNCHANGED found_links
     \/ /\ found_links' = StampProcessed(b[j].links[b[j].i].id)
        /\ b' = [b EXCEPT ![j] = B_Push(j, "success", "")]
  /\ UNCHANGED <<articles, tags, categories, article_tags, article_categories,
                 comments, nextId, env, sl, cr>>

(* return {processed: results.length, results} *)
B_Return(j) ==
  /\ Yielded
  /\ b[j].pc = "return"
  /\ b' = [b EXCEPT ![j].pc = "done", ![j].processed = Len(b[j].results)]
  /\ UNCHANGED <<storageVars, env, sl, cr>>

B_Reset(j) ==
  /\ Yielded
  /\ b[j].pc = "done"
  /\ b' = [b EXCEPT ![j] = BIdle]
  /\ UNCHANGED <<storageVars, env, sl, cr>>

(* one invocation, from the request to the response *)
B_Invocation(j) ==
  \/ B_Select(j) \/ B_Scrape(j) \/ B_InsertArticle(j) \/ B_CategoryUpsert(j)
  \/ B_CategoryLink(j) \/ B_CategoriesDone(j) \/ B_TagUpsert(j) \/ B_TagLink(j)
  \/ B_TagsDone(j) \/ B_Comments(j) \/ B_Stamp(j) \/ B_Return(j)

BatchRunner == \E j \in Procs : B_Invocation(j) \/ B_Reset(j)

----------------------------------------------------------------------------
(* server/utils/crawler.ts                                                 *)

fileExts == {".jpg", ".jpeg", ".png", ".gif", ".svg", ".pdf", ".mp3", ".mp4",
             ".zip", ".psd"}

OTHER_HOST == "https://other.org"

(* the tokens that are a scheme and host; a string new URL() accepts       *)
(* starts with one                                                         *)
Origins == {HOST, OTHER_HOST}

(* new URL('https://thealexandrian.net/').origin *)
baseDomain == <<HOST>>

startsWith(url, prefix) ==
  Len(url) >= Len(prefix) /\ SubSeq(url, 1, Len(prefix)) = prefix

(* fileExts.some(ext => url.endsWith(ext)) *)
isFile(url) == Len(url) > 0 /\ url[Len(url)] \in fileExts

(* index of the first "?" or "#" token, or Len(url) + 1 *)
CutIndex(url) ==
  LET marks == {k \in 1..Len(url) : url[k] \in {"?", "#"}}
  IN IF marks = {} THEN Len(url) + 1
     ELSE CHOOSE k \in marks : \A m \in marks : k <= m

(* only the last of the fragment and the query is cleared *)
normalizeUrl_LastMark(url) ==
  IF Len(url) = 0 \/ url[1] \notin Origins
  THEN url
  ELSE LET marks == {k \in 1..Len(url) : url[k] \in {"?", "#"}}
           last == IF marks = {} THEN Len(url) + 1
                   ELSE CHOOSE k \in marks : \A m \in marks : m <= k
           kept == SubSeq(url, 1, last - 1)
       IN IF Len(kept) = 1 THEN kept \o <<"/">> ELSE kept

(* normalizeUrl: parse, clear hash and search, serialize (a bare origin is *)
(* serialized with the path "/"); a string that does not parse is          *)
(* returned as it is                                                       *)
normalizeUrl(url) ==
  IF Len(url) = 0 \/ url[1] \notin Origins
  THEN url
  ELSE LET kept == SubSeq(url, 1, CutIndex(url) - 1)
       IN IF Len(kept) = 1 THEN kept \o <<"/">> ELSE kept

(* normalizeUrl without its try/catch: the TypeError of new URL() reaches  *)
(* the caller                                                              *)
NormalizeCall_NoCatch(url) ==
  IF Len(url) = 0 \/ url[1] \notin Origins
  THEN [threw |-> TRUE, ret |-> <<>>]
  ELSE [threw |-> FALSE, ret |-> normalizeUrl(url)]

(* a call of normalizeUrl as its caller sees it: the try/catch lets no     *)
(* exception out                                                           *)
NormalizeCall(url) == [threw |-> FALSE, ret |-> normalizeUrl(url)]

NzIdle == [pc |-> "idle", url |-> <<>>, ret |-> <<>>, threw |-> FALSE]

(* normalizeUrl(url), then normalizeUrl of the value it returned *)
Normalize ==
  /\ nz.pc \in {"called", "returned"}
  /\ LET arg == IF nz.pc = "called" THEN nz.url ELSE nz.ret
         out == NormalizeCall(arg)
     IN nz' = [nz EXCEPT !.pc = IF out.threw THEN "threw"
                                ELSE IF nz.pc = "called" THEN "returned"
                                ELSE "again",
                         !.ret = out.ret,
                         !.threw = out.threw]
  /\ UNCHANGED <<storageVars, nextLinkId, down, faulty, sc, tc, quota, sl, b, cr>>

ROOT == <<HOST, "/">>
PA == <<HOST, "/", "a">>
PB == <<HOST, "/", "b">>
IMG == <<HOST, "/", "i", ".jpg">>
PAQ == <<HOST, "/", "a", "?", "q">>
PC == <<HOST, "/", "c">>

(* "https://thealexandrian.net.evil.example/": another host, whose URL     *)
(* begins with the characters of the root's origin                         *)
LOOKALIKE == <<HOST, ".evil.example", "/">>

(* the href attributes of the a[href] elements of the page at url, in      *)
(* document order                                                          *)
Anchors(url) ==
  CASE url = ROOT -> <<PAQ, IMG, <<OTHER_HOST, "/">>, <<"/", "rel">>>>
    [] url = PA -> <<<<HOST>>, <<HOST, "/", "b", "#", "c">>, PA>>
    [] url = PB -> <<PA, <<>>, IMG>>
    [] url = PC -> <<LOOKALIKE, <<OTHER_HOST, "/">>>>
    [] OTHER -> <<>>

(* the for (const anchor of anchors) loop of getLinksFromUrl *)
RECURSIVE FilterAnchors(_, _, _)
FilterAnchors(anchors, visited, foundLinks) ==
  IF anchors = <<>> THEN foundLinks
  ELSE CHOOSE rest \in
         {FilterAnchors(Tail(anchors), visited,
            IF \/ href = <<>>
               \/ absoluteUrl \in Range(foundLinks)
               \/ ~startsWith(absoluteUrl, baseDomain)
               \/ absoluteUrl \in visited
            THEN foundLinks
            ELSE Append(foundLinks, absoluteUrl)) :
              href \in {Head(anchors)}, absoluteUrl \in {normalizeUrl(Head(anchors))}} : TRUE

(* the default of the delayMs parameter *)
delayMs == 1000

(* await delay(ms) has completed *)
Delayed(ms) == [op |-> "delay", ms |-> ms, url |-> <<>>]

(* $fetch(url) was issued *)
Fetched(url) == [op |-> "fetch", ms |-> 0, url |-> url]

(* the request is issued at once, without the delay *)
getLinksFromUrl_NoDelay(currentUrl, visited) ==
  IF currentUrl = <<>> \/ currentUrl \in visited
  THEN [null |-> FALSE, links |-> <<>>, fetched |-> FALSE, ops |-> <<>>]
  ELSE IF currentUrl \in down
  THEN [null |-> TRUE, links |-> <<>>, fetched |-> TRUE, ops |-> <<Fetched(currentUrl)>>]
  ELSE [null |-> FALSE, links |-> FilterAnchors(Anchors(currentUrl), visited, <<>>),
        fetched |-> TRUE, ops |-> <<Fetched(currentUrl)>>]

(* getLinksFromUrl(currentUrl, visited): null when the fetch or the parse  *)
(* throws; fetched tells whether a request was issued; ops are the delay   *)
(* and the request, in the order they happened                             *)
getLinksFromUrl(currentUrl, visited) ==
  IF currentUrl = <<>> \/ currentUrl \in visited
  THEN [null |-> FALSE, links |-> <<>>, fetched |-> FALSE, ops |-> <<>>]
  ELSE IF currentUrl \in down
  THEN [null |-> TRUE, links |-> <<>>, fetched |-> TRUE,
        ops |-> <<Delayed(delayMs), Fetched(currentUrl)>>]
  ELSE [null |-> FALSE, links |-> FilterAnchors(Anchors(currentUrl), visited, <<>>),
        fetched |-> TRUE, ops |-> <<Delayed(delayMs), Fetched(currentUrl)>>]

(* getDuplicateLinks: every record whose href occurs more than once *)
getDuplicateLinks(links) ==
  {r \in links : \E q \in links : q.id # r.id /\ q.href = r.href}

(* getNormalizedDuplicateLinks: the records normalization would change *)
getNormalizedDuplicateLinks(links) ==
  {r \in links : normalizeUrl(r.href) # r.href}

(* getFileLinks *)
getFileLinks(links) == {r \in links : isFile(r.href)}

----------------------------------------------------------------------------
(* The link-process handler (Taxonomy Classifier).                         *)

T_NBD == <<HOST, "/tag/", "node", "-", "based", "-", "design">>
T_RPG2 == <<HOST, "/tag/", "rpg", "/page/", "2">>
C_GM2 == <<HOST, "/category/", "game", "-", "mastering", "/page/", "2">>
T_NONE == <<HOST, "/tag/">>

(* the tokens that contain a "/" *)
SlashTokens == {HOST, "/", "/tag/", "/category/", "/page/"}

(* the text of the regex up to its capture group *)
Marker(table) == IF table = "tags" THEN "/tag/" ELSE "/category/"

(* href.match(/\/tag\/([^\/]+)(?:\/page\/\d+)?/): the places where the     *)
(* marker is followed by at least one character other than "/"             *)
MatchAt(href, table) ==
  {k \in 1..(Len(href) - 1) : href[k] = Marker(table) /\ href[k + 1] \notin SlashTokens}

(* m[1] of the leftmost match: the longest run without "/"; <<>> when the  *)
(* regex does not match                                                    *)
Slug(href, table) ==
  IF MatchAt(href, table) = {} THEN <<>>
  ELSE LET k == CHOOSE x \in MatchAt(href, table) : \A y \in MatchAt(href, table) : x <= y
           stops == {j \in (k + 1)..Len(href) : href[j] \in SlashTokens}
           end == IF stops = {} THEN Len(href)
                  ELSE (CHOOSE j \in stops : \A y \in stops : j <= y) - 1
       IN SubSeq(href, k + 1, end)

(* c => c.toUpperCase() on the first character of a word *)
Capitalized(word) ==
  CASE word = "node" -> "Node"
    [] word = "based" -> "Based"
    [] word = "design" -> "Design"
    [] word = "rpg" -> "Rpg"
    [] word = "game" -> "Game"
    [] word = "mastering" -> "Mastering"
    [] OTHER -> word

(* slug.replace(/-/g, ' ').replace(/\b\w/g, c => c.toUpperCase()) *)
RECURSIVE NameOf(_)
NameOf(slug) ==
  IF slug = <<>> THEN ""
  ELSE (IF Head(slug) = "-" THEN " " ELSE Capitalized(Head(slug))) \o NameOf(Tail(slug))

(* the row handle() inserts: name and description, no slug *)
TaxonomyRow(slug) == [name |-> NameOf(slug), description |-> ""]

(* categories without the unique constraint on name *)
TaxonomyInsertRejected_NoUnique(table, row) ==
  table = "tags" /\ "slug" \notin DOMAIN row

(* tags: name UNIQUE NOT NULL, slug UNIQUE NOT NULL; categories: name      *)
(* UNIQUE NOT NULL                                                         *)
TaxonomyInsertRejected(table, row) ==
  IF table = "tags"
  THEN "slug" \notin DOMAIN row \/ \E t \in tags : t.name = row.name
  ELSE \E c \in categories : c.name = row.name

(* ran: an earlier invocation of the handler has returned *)
TcIdle == [pc |-> "idle", table |-> "", links |-> <<>>, i |-> 0, ret |-> "ok",
           ran |-> FALSE]

(* handle(statusValue, table, regex): the select; a load error returns     *)
(* from handle, and processFoundLinks goes on with the next handle         *)
TC_Load ==
  /\ Yielded
  /\ \/ tc.pc = "idle" /\ Arrives
     \/ tc.pc = "loop" /\ tc.table = "tags" /\ tc.i > Len(tc.links)
  /\ LET table == IF tc.pc = "idle" THEN "tags" ELSE "categories"
         statusValue == IF table = "tags" THEN Tag ELSE Category
         rows == {[id |-> r.id, href |-> r.href] :
                    r \in {x \in found_links : x.status = statusValue}}
     IN \/ /\ faulty
           /\ tc' = [tc EXCEPT !.pc = "loop", !.table = table, !.links = <<>>,
                               !.i = 1, !.ret = "error"]
        \/ \E links \in Perms(rows) :
             tc' = [tc EXCEPT !.pc = "loop", !.table = table, !.links = links,
                              !.i = 1, !.ret = "ok"]
  /\ quota' = IF tc.pc = "idle" THEN Sent ELSE quota
  /\ UNCHANGED <<storageVars, nextLinkId, down, faulty, nz, sc, sl, b, cr>>

(* the regex does not match and the update is not written *)
TC_NoMatch_Skips ==
  /\ Yielded
  /\ tc.pc = "loop"
  /\ tc.i <= Len(tc.links)
  /\ Slug(tc.links[tc.i].href, tc.table) = <<>>
  /\ tc' = [tc EXCEPT !.i = tc.i + 1, !.ret = "ok"]
  /\ UNCHANGED <<storageVars, nextLinkId, down, faulty, nz, sc, quota, sl, b, cr>>

(* if (!m): update({status: Error}).eq('id', link.id), its error not read; *)
(* continue                                                                *)
TC_NoMatch ==
  /\ Yielded
  /\ tc.pc = "loop"
  /\ tc.i <= Len(tc.links)
  /\ Slug(tc.links[tc.i].href, tc.table) = <<>>
  /\ \/ /\ faulty
        /\ tc' = [tc EXCEPT !.i = tc.i + 1, !.ret = "error"]
        /\ UNCHANGED found_links
     \/ /\ found_links' =
             {IF r.id = tc.links[tc.i].id THEN [r EXCEPT !.status = Error] ELSE r :
                r \in found_links}
        /\ tc' = [tc EXCEPT !.i = tc.i + 1, !.ret = "ok"]
  /\ UNCHANGED <<articles, tags, categories, article_tags, article_categories,
                 comments, nextId, nextLinkId, down, faulty, nz, sc, quota, sl, b, cr>>

(* the insert written as an upsert on name: a stored row of that name gets *)
(* the new row's description                                               *)
TC_Insert_Upserts ==
  /\ Yielded
  /\ tc.pc = "loop"
  /\ tc.i <= Len(tc.links)
  /\ Slug(tc.links[tc.i].href, tc.table) # <<>>
  /\ LET row == TaxonomyRow(Slug(tc.links[tc.i].href, tc.table))
     IN /\ tags' = {IF tc.table = "tags" /\ t.name = row.name
                    THEN [t EXCEPT !.description = row.description] ELSE t : t \in tags}
        /\ categories' =
             (IF tc.table = "categories" /\ ~\E c \in categories : c.name = row.name
              THEN {[id |-> Cardinality(categories) + 1, name |-> row.name,
                     description |-> row.description]}
              ELSE {})
             \cup {IF tc.table = "categories" /\ c.name = row.name
                   THEN [c EXCEPT !.description = row.description] ELSE c :
                     c \in categories}
        /\ tc' = [tc EXCEPT !.i = tc.i + 1, !.ret = "ok"]
  /\ UNCHANGED <<found_links, articles, article_tags, article_categories,
                 comments, nextId, nextLinkId, down, faulty, nz, sc, quota, sl, b, cr>>

(* the regex matches: insert(row) into the table; an error is logged *)
TC_Insert ==
  /\ Yielded
  /\ tc.pc = "loop"
  /\ tc.i <= Len(tc.links)
  /\ Slug(tc.links[tc.i].href, tc.table) # <<>>
  /\ LET row == TaxonomyRow(Slug(tc.links[tc.i].href, tc.table))
     IN \/ /\ faulty \/ TaxonomyInsertRejected(tc.table, row)
           /\ tc' = [tc EXCEPT !.i = tc.i + 1, !.ret = "error"]
           /\ UNCHANGED <<tags, categories>>
        \/ /\ ~TaxonomyInsertRejected(tc.table, row)
           /\ IF tc.table = "tags"
              THEN /\ tags' = tags \cup
                        {[id |-> Cardinality(tags) + 1, name |-> row.name,
                          slug |-> NULL, description |-> row.description]}
                   /\ UNCHANGED categories
              ELSE /\ categories' = categories \cup
                        {[id |-> Cardinality(categories) + 1, name |-> row.name,
                          description |-> row.description]}
                   /\ UNCHANGED tags
           /\ tc' = [tc EXCEPT !.i = tc.i + 1, !.ret = "ok"]
  /\ UNCHANGED <<found_links, articles, article_tags, article_categories,
                 comments, nextId, nextLinkId, down, faulty, nz, sc, quota, sl, b, cr>>

(* both handle() calls are over: return {data: 'ok'} *)
TC_Return ==
  /\ Yielded
  /\ tc.pc = "loop"
  /\ tc.table = "categories"
  /\ tc.i > Len(tc.links)
  /\ tc' = [tc EXCEPT !.pc = "done"]
  /\ UNCHANGED <<storageVars, nextLinkId, down, faulty, nz, sc, quota, sl, b, cr>>

(* the response has been sent; the handler serves the next request *)
TC_Reset ==
  /\ Yielded
  /\ tc.pc = "done"
  /\ tc' = [TcIdle EXCEPT !.ran = TRUE]
  /\ UNCHANGED <<storageVars, nextLinkId, down, faulty, nz, sc, quota, sl, b, cr>>

Classifier == TC_Load \/ TC_NoMatch \/ TC_Insert \/ TC_Return \/ TC_Reset

----------------------------------------------------------------------------
(* The crawl handler.  An action is what the handler does from the        *)
(* completion of one awaited call to the issue of the next.                *)

(* what getLinksFromUrl returns when it returns without a request *)
NoRes == [null |-> FALSE, links |-> <<>>, fetched |-> FALSE, ops |-> <<>>]

CrIdle == [pc |-> "idle", existing |-> <<>>, dels |-> {}, marks |-> {},
           visited |-> {}, toVisit |-> <<>>, url |-> <<>>, res |-> NoRes,
           k |-> 0, finalAdd |-> <<>>, fetched |-> <<>>, halted |-> FALSE,
           failed |-> {}, owed |-> {}, log |-> <<>>]

(* Set.add on an insertion-ordered set *)
SetAdd(s, x) == IF x \in Range(s) THEN s ELSE Append(s, x)

(* PHASE 4: existing.forEach(...); updatedUrls holds the ids phase 3       *)
(* returned, and an id is the string of one token                          *)
RECURSIVE Rehydrate(_, _, _)
Rehydrate(existing, updatedUrls, acc) ==
  IF existing = <<>> THEN acc
  ELSE CHOOSE rest \in
         {Rehydrate(Tail(existing), updatedUrls,
            IF \E u \in updatedUrls : <<u>> = rec.href THEN acc
            ELSE IF rec.status = Visited
              THEN [acc EXCEPT !.visited = acc.visited \cup {rec.href}]
            ELSE IF rec.status = Pending
              THEN [acc EXCEPT !.toVisit = SetAdd(acc.toVisit, rec.href)]
            ELSE acc) : rec \in {Head(existing)}} : TRUE

(* PHASE 5 *)
Seed(q) ==
  IF q.toVisit = <<>> /\ ROOT \notin q.visited
  THEN [q EXCEPT !.toVisit = <<ROOT>>] ELSE q

(* PHASE 2 deletes one copy of each href that occurs more than once *)
ToDeleteIds_OneCopy(existing) ==
  {r.id : r \in {x \in getDuplicateLinks(existing) :
                   \A y \in getDuplicateLinks(existing) :
                     y.href = x.href => x.created_at <= y.created_at}}

(* PHASE 2: toDeleteIds, the ids of [...duplicates, ...normalizedDuplicates] *)
ToDeleteIds(existing) ==
  {r.id : r \in getDuplicateLinks(existing)
            \cup getNormalizedDuplicateLinks(getDuplicateLinks(existing))}

(* PHASE 3: the ids of getFileLinks(existing) *)
FileIds(existing) == {r.id : r \in getFileLinks(existing)}

(* visited.add(currentUrl); toVisit.delete(currentUrl); the status update  *)
(* is issued                                                               *)
Popped(q) ==
  [q EXCEPT !.pc = "update",
            !.visited = q.visited \cup {q.url},
            !.toVisit = SelectSeq(q.toVisit, LAMBDA u : u # q.url),
            !.fetched = IF q.res.fetched THEN Append(q.fetched, q.url)
                        ELSE q.fetched]

(* PHASE 6 from the top of the while to its first awaited call: the return *)
(* when toVisit is empty, the file branch, or the call of getLinksFromUrl,  *)
(* which returns at once for a URL of the visited set                      *)
LoopTop(q) ==
  IF q.toVisit = <<>> THEN [q EXCEPT !.pc = "done"]
  ELSE IF isFile(Head(q.toVisit)) THEN [q EXCEPT !.pc = "spin", !.url = Head(q.toVisit)]
  ELSE CHOOSE top \in
         {IF called.res.ops = <<>> THEN Popped(called)
          ELSE [called EXCEPT !.pc = "links"] :
            called \in {[q EXCEPT !.url = Head(q.toVisit),
                                  !.res = getLinksFromUrl(Head(q.toVisit), q.visited),
                                  !.k = 1]}} : TRUE

(* PHASES 4 and 5, then the loop *)
BuildQueue(q) ==
  CHOOSE top \in {LoopTop(Seed(r)) :
                    r \in {Rehydrate(q.existing, FileIds(Range(q.existing)),
                                     [q EXCEPT !.existing = <<>>])}} : TRUE

(* PHASE 3 issues an update for every file link of the loaded rows *)
MarkFiles(q) ==
  IF FileIds(Range(q.existing)) = {} THEN BuildQueue(q)
  ELSE [q EXCEPT !.pc = "marking", !.marks = FileIds(Range(q.existing))]

(* PHASE 1: load the table; PHASE 2 issues a delete for every id of        *)
(* toDeleteIds                                                             *)
Cr_Load ==
  /\ cr.pc = "idle"
  /\ Arrives
  /\ \/ /\ faulty
        /\ cr' = [cr EXCEPT !.pc = "done", !.halted = TRUE]
     \/ /\ found_links = {}
        /\ cr' = [cr EXCEPT !.pc = "done"]
     \/ /\ found_links # {}
        /\ \E existing \in Perms(found_links), toDeleteIds \in {ToDeleteIds(found_links)} :
             cr' = IF toDeleteIds = {}
                   THEN MarkFiles([cr EXCEPT !.existing = existing])
                   ELSE [cr EXCEPT !.pc = "deleting", !.existing = existing,
                                   !.dels = toDeleteIds]
  /\ quota' = Sent
  /\ UNCHANGED <<storageVars, nextLinkId, down, faulty, nz, sc, tc, sl, b>>

(* one delete().eq('id', id) of PHASE 2 completes; its error is not read;  *)
(* after the last one Promise.all resolves                                 *)
Cr_Delete(id) ==
  /\ cr.pc = "deleting"
  /\ id \in cr.dels
  /\ \E applied \in BOOLEAN :
       /\ faulty \/ applied
       /\ found_links' = IF applied THEN {r \in found_links : r.id # id}
                         ELSE found_links
  /\ cr' = IF cr.dels = {id} THEN MarkFiles([cr EXCEPT !.dels = {}])
           ELSE [cr EXCEPT !.dels = cr.dels \ {id}]
  /\ UNCHANGED <<articles, tags, categories, article_tags, article_categories,
                 comments, nextId, env, sl, b>>

(* one update({status: File}).eq('id', rec.id) of PHASE 3 completes; its   *)
(* error is not read; after the last one Promise.all resolves              *)
Cr_MarkFile(id) ==
  /\ cr.pc = "marking"
  /\ id \in cr.marks
  /\ \E applied \in BOOLEAN :
       /\ faulty \/ applied
       /\ found_links' =
            IF applied
            THEN {IF r.id = id THEN [r EXCEPT !.status = File] ELSE r : r \in found_links}
            ELSE found_links
  /\ cr' = IF cr.marks = {id} THEN BuildQueue([cr EXCEPT !.marks = {}])
           ELSE [cr EXCEPT !.marks = cr.marks \ {id}]
  /\ UNCHANGED <<articles, tags, categories, article_tags, article_categories,
                 comments, nextId, env, sl, b>>

currentUrl == cr.url

(* found_links.update({status}).eq('href', href) *)
SetStatus(href, status) ==
  {IF r.href = href THEN [r EXCEPT !.status = status] ELSE r : r \in found_links}

(* PHASE 6, file branch: the update is pushed and the loop continues with  *)
(* toVisit as it was; the branch awaits nothing, so the loop never leaves  *)
(* it and the pushed update is never sent                                  *)
Cr_FileStep ==
  /\ cr.pc = "spin"
  /\ isFile(currentUrl)
  /\ UNCHANGED <<storageVars, env, sl, b, cr>>

(* an awaited call of getLinksFromUrl completes; after the last one the    *)
(* function returns                                                        *)
Awaited(q) ==
  LET logged == [q EXCEPT !.log = Append(q.log, q.res.ops[q.k]), !.k = q.k + 1]
  IN IF q.k = Len(q.res.ops) THEN Popped(logged) ELSE logged

(* await delay(delayMs) *)
Cr_Delay ==
  /\ cr.pc = "links"
  /\ cr.res.ops[cr.k].op = "delay"
  /\ cr' = Awaited(cr)
  /\ UNCHANGED <<storageVars, env, sl, b>>

(* await $fetch(currentUrl): the page, or the throw that makes foundLinks  *)
(* null                                                                    *)
Cr_Fetch ==
  /\ cr.pc = "links"
  /\ cr.res.ops[cr.k].op = "fetch"
  /\ cr' = Awaited(cr)
  /\ UNCHANGED <<storageVars, env, sl, b>>

(* a failed fetch recorded as Visited *)
Cr_MarkError_MarksVisited ==
  /\ cr.pc = "update"
  /\ cr.res.null
  /\ found_links' = SetStatus(currentUrl, Visited)
  /\ cr' = LoopTop([cr EXCEPT !.failed = cr.failed \cup {currentUrl},
                              !.owed = cr.owed \cup Range(cr.toVisit)])
  /\ UNCHANGED <<articles, tags, categories, article_tags, article_categories,
                 comments, nextId, env, sl, b>>

(* foundLinks === null: the update to Error completes, continue; a failed  *)
(* update returns from the handler                                         *)
Cr_MarkError ==
  /\ cr.pc = "update"
  /\ cr.res.null
  /\ \/ /\ faulty
        /\ cr' = [cr EXCEPT !.pc = "done", !.halted = TRUE]
        /\ UNCHANGED found_links
     \/ /\ found_links' = SetStatus(currentUrl, Error)
        /\ cr' = LoopTop([cr EXCEPT !.failed = cr.failed \cup {currentUrl},
                                    !.owed = cr.owed \cup Range(cr.toVisit)])
  /\ UNCHANGED <<articles, tags, categories, article_tags, article_categories,
                 comments, nextId, env, sl, b>>

(* every found link is queued, known or not *)
FinalAdd_NoGuard(foundLinks, q) == foundLinks

(* the foundLinks.forEach that builds finalAdd *)
FinalAdd(foundLinks, q) ==
  LET fresh(l) == l \notin q.visited /\ l \notin Range(q.toVisit)
  IN SelectSeq(foundLinks, fresh)

(* the fetch succeeded: the update to Visited completes, the new links are *)
(* queued and their insert is issued; a failed update returns from the     *)
(* handler                                                                 *)
Cr_MarkVisited ==
  /\ cr.pc = "update"
  /\ ~cr.res.null
  /\ \/ /\ faulty
        /\ cr' = [cr EXCEPT !.pc = "done", !.halted = TRUE]
        /\ UNCHANGED found_links
     \/ /\ found_links' = SetStatus(currentUrl, Visited)
        /\ cr' = [cr EXCEPT !.pc = "insert",
                            !.finalAdd = FinalAdd(cr.res.links, cr),
                            !.toVisit = cr.toVisit \o FinalAdd(cr.res.links, cr)]
  /\ UNCHANGED <<articles, tags, categories, article_tags, article_categories,
                 comments, nextId, env, sl, b>>

(* the rows of the batch insert: href, status Pending, generated id *)
NewRows(finalAdd) ==
  {[id |-> ToString(nextLinkId + k - 1), href |-> finalAdd[k], status |-> Pending,
    processed_at |-> NULL, created_at |-> nextLinkId] : k \in 1..Len(finalAdd)}

(* href is UNIQUE *)
InsertConflict(finalAdd) ==
  \E k \in 1..Len(finalAdd) : \E r \in found_links : r.href = finalAdd[k]

(* a rejected insert is logged and the loop goes on *)
Cr_Insert_GoesOn ==
  /\ cr.pc = "insert"
  /\ \/ /\ faulty \/ InsertConflict(cr.finalAdd)
        /\ cr' = LoopTop([cr EXCEPT !.halted = TRUE, !.finalAdd = <<>>])
        /\ UNCHANGED <<found_links, nextLinkId>>
     \/ /\ ~InsertConflict(cr.finalAdd)
        /\ found_links' = found_links \cup NewRows(cr.finalAdd)
        /\ nextLinkId' = nextLinkId + Len(cr.finalAdd)
        /\ cr' = LoopTop([cr EXCEPT !.finalAdd = <<>>])
  /\ UNCHANGED <<articles, tags, categories, article_tags, article_categories,
                 comments, nextId, down, faulty, nz, sc, tc, quota, sl, b>>

(* the batch insert of finalAdd completes, then the next iteration; a      *)
(* failed insert returns from the handler                                  *)
Cr_Insert ==
  /\ cr.pc = "insert"
  /\ \/ /\ faulty \/ InsertConflict(cr.finalAdd)
        /\ cr' = [cr EXCEPT !.pc = "done", !.halted = TRUE]
        /\ UNCHANGED <<found_links, nextLinkId>>
     \/ /\ ~InsertConflict(cr.finalAdd)
        /\ found_links' = found_links \cup NewRows(cr.finalAdd)
        /\ nextLinkId' = nextLinkId + Len(cr.finalAdd)
        /\ cr' = LoopTop([cr EXCEPT !.finalAdd = <<>>])
  /\ UNCHANGED <<articles, tags, categories, article_tags, article_categories,
                 comments, nextId, down, faulty, nz, sc, tc, quota, sl, b>>

(* the response has been sent; the handler serves the next request *)
Cr_Reset ==
  /\ cr.pc = "done"
  /\ cr' = CrIdle
  /\ UNCHANGED <<storageVars, env, sl, b>>

(* the handler over a table whose hrefs are unique: toDeleteIds is empty  *)
(* and PHASE 2 issues no delete                                            *)
Crawl ==
  \/ Cr_Load \/ (\E id \in cr.marks : Cr_MarkFile(id)) \/ Cr_FileStep \/ Cr_Delay
  \/ Cr_Fetch \/ Cr_MarkError \/ Cr_MarkVisited \/ Cr_Insert \/ Cr_Reset

(* the handler over a table that holds an href more than once *)
CrawlDuplicates == Crawl \/ (\E id \in cr.dels : Cr_Delete(id))

----------------------------------------------------------------------------
(* The link table the runners start from: two Article links and one link   *)
(* that is not an Article.                                                 *)

IngestLinks ==
  {[id |-> "1", href |-> L1, status |-> Article, processed_at |-> NULL, created_at |-> 1],
   [id |-> "2", href |-> L2, status |-> Article, processed_at |-> NULL, created_at |-> 2],
   [id |-> "3", href |-> L3, status |-> Visited, processed_at |-> NULL, created_at |-> 3]}

InitStorage ==
  /\ found_links = IngestLinks
  /\ articles = {}
  /\ tags = {}
  /\ categories = {}
  /\ article_tags = {}
  /\ article_categories = {}
  /\ comments = {}
  /\ nextId = 1
  /\ nextLinkId = 4

InitRunners ==
  /\ sl = [i \in Procs |-> SLIdle]
  /\ b = [j \in Procs |-> BIdle]
  /\ cr = CrIdle
  /\ nz = NzIdle
  /\ sc = ScIdle
  /\ tc = TcIdle

Init ==
  /\ InitStorage
  /\ InitRunners
  /\ down = {}
  /\ faulty = TRUE
  /\ quota = MaxRequests

Next == SingleLinkRunner \/ BatchRunner

(* MaxRequests requests to the two runners, up to MaxProcs of them served  *)
(* at one time                                                             *)
Spec == Init /\ [][Next]_vars

(* requests to the Batch Runner only *)
SpecBatch == Init /\ [][BatchRunner]_vars

(* the requests contend for the one unprocessed Article link *)
ConcurrentLinks == {r \in IngestLinks : r.href \in {L2, L3}}

InitConcurrent ==
  /\ found_links = ConcurrentLinks
  /\ articles = {}
  /\ tags = {}
  /\ categories = {}
  /\ article_tags = {}
  /\ article_categories = {}
  /\ comments = {}
  /\ nextId = 1
  /\ nextLinkId = 4
  /\ InitRunners
  /\ down = {}
  /\ faulty = TRUE
  /\ quota = MaxRequests

(* requests to the Single-Link Runner only *)
SpecConcurrent == InitConcurrent /\ [][SingleLinkRunner]_vars

(* one unprocessed Article link, and a link that is not an Article *)
OneLink == {r \in IngestLinks : r.href \in {L1, L3}}

InitOneLink ==
  /\ found_links = OneLink
  /\ articles = {}
  /\ tags = {}
  /\ categories = {}
  /\ article_tags = {}
  /\ article_categories = {}
  /\ comments = {}
  /\ nextId = 1
  /\ nextLinkId = 4
  /\ InitRunners
  /\ down = {}
  /\ faulty = TRUE
  /\ quota = MaxRequests

(* requests to the two runners over a table with one unprocessed link *)
SpecOneLink == InitOneLink /\ [][Next]_vars

(* two unprocessed Article links; the page of the second has no article   *)
(* container                                                               *)
NoContainerLinks ==
  {IF r.href = L3 THEN [r EXCEPT !.status = Article] ELSE r : r \in ConcurrentLinks}

InitNoContainer ==
  /\ found_links = NoContainerLinks
  /\ articles = {}
  /\ tags = {}
  /\ categories = {}
  /\ article_tags = {}
  /\ article_categories = {}
  /\ comments = {}
  /\ nextId = 1
  /\ nextLinkId = 4
  /\ InitRunners
  /\ down = {}
  /\ faulty = TRUE
  /\ quota = MaxRequests

(* requests to the two runners over a table with a link whose page has no *)
(* container                                                               *)
SpecNoContainer == InitNoContainer /\ [][Next]_vars

(* three unprocessed Article links; the page of the second oldest has no   *)
(* article container, the youngest is a page that can be ingested          *)
StarveLinks ==
  {[id |-> "1", href |-> L1, status |-> Article, processed_at |-> NULL, created_at |-> 1],
   [id |-> "3", href |-> L3, status |-> Article, processed_at |-> NULL, created_at |-> 2],
   [id |-> "2", href |-> L2, status |-> Article, processed_at |-> NULL, created_at |-> 3]}

InitStarve ==
  /\ found_links = StarveLinks
  /\ articles = {}
  /\ tags = {}
  /\ categories = {}
  /\ article_tags = {}
  /\ article_categories = {}
  /\ comments = {}
  /\ nextId = 1
  /\ nextLinkId = 4
  /\ InitRunners
  /\ down = {}
  /\ faulty = TRUE
  /\ quota = Unmetered

(* clients that never stop sending requests to the Single-Link Runner; the *)
(* event loop resumes every handler whose awaited call has settled         *)
SpecStarveFair ==
  /\ InitStarve
  /\ [][SingleLinkRunner]_vars
  /\ \A i \in Procs : WF_vars(SL_Invocation(i) \/ SL_Return(i))

(* The link tables a crawl starts from: some of the site's URLs, each      *)
(* Pending, Visited or classified as an Article, hrefs unique.             *)
CrawlUrls == <<ROOT, PB, IMG, PAQ>>

CrawlTables ==
  {{[id |-> ToString(k), href |-> CrawlUrls[k], status |-> st[k],
     processed_at |-> NULL, created_at |-> k] : k \in S} :
     S \in SUBSET (1..Len(CrawlUrls)), st \in [1..Len(CrawlUrls) -> {Pending, Visited, Article}]}

InitCrawlStorage ==
  /\ found_links \in CrawlTables
  /\ articles = {}
  /\ tags = {}
  /\ categories = {}
  /\ article_tags = {}
  /\ article_categories = {}
  /\ comments = {}
  /\ nextId = 1
  /\ nextLinkId = Len(CrawlUrls) + 1
  /\ down \in SUBSET {ROOT, PA, PB}

InitCrawl ==
  /\ InitCrawlStorage
  /\ InitRunners
  /\ faulty = TRUE
  /\ quota = MaxRequests

(* crawl requests, one at a time, over a port that can fail *)
SpecCrawl == InitCrawl /\ [][Crawl]_vars

InitCrawlFair ==
  /\ InitCrawlStorage
  /\ InitRunners
  /\ faulty = FALSE
  /\ quota = Unmetered

(* clients that never stop sending crawl requests, one at a time, over a   *)
(* port that never fails; a handler that can take a step takes one         *)
SpecCrawlFair == InitCrawlFair /\ [][Crawl]_vars /\ WF_vars(Crawl)

(* The link tables of a crawl that reaches a page with a link to a host    *)
(* whose name begins with the root's host name.                            *)
OriginUrls == <<PC, IMG>>

OriginTables ==
  {{[id |-> ToString(k), href |-> OriginUrls[k], status |-> st[k],
     processed_at |-> NULL, created_at |-> k] : k \in S} :
     S \in SUBSET (1..Len(OriginUrls)),
     st \in [1..Len(OriginUrls) -> {Pending, Visited, Article}]}

InitCrawlOrigin ==
  /\ found_links \in OriginTables
  /\ articles = {}
  /\ tags = {}
  /\ categories = {}
  /\ article_tags = {}
  /\ article_categories = {}
  /\ comments = {}
  /\ nextId = 1
  /\ nextLinkId = Len(OriginUrls) + 1
  /\ down \in SUBSET {ROOT, PC, LOOKALIKE}
  /\ InitRunners
  /\ faulty = TRUE
  /\ quota = MaxRequests

(* crawl requests, one at a time, over those tables *)
SpecCrawlOrigin == InitCrawlOrigin /\ [][Crawl]_vars

(* The link tables whose maintenance phases have work to do: MaintRows     *)
(* records, hrefs that may repeat and may carry a query string.            *)
MaintHrefs == {PA, PAQ, IMG}

MaintTables ==
  {{[id |-> ToString(k), href |-> f[k][1], status |-> f[k][2],
     processed_at |-> NULL, created_at |-> k] : k \in 1..MaintRows} :
     f \in [1..MaintRows -> MaintHrefs \X {Pending, Visited, Article}]}

InitMaintenance ==
  /\ found_links \in MaintTables
  /\ articles = {}
  /\ tags = {}
  /\ categories = {}
  /\ article_tags = {}
  /\ article_categories = {}
  /\ comments = {}
  /\ nextId = 1
  /\ nextLinkId = MaintRows + 1
  /\ down \in {{}, {PA}}
  /\ InitRunners
  /\ faulty = FALSE
  /\ quota = MaxRequests

(* crawl requests, one at a time, over those tables and a port that        *)
(* applies every call                                                      *)
SpecMaintenance == InitMaintenance /\ [][CrawlDuplicates]_vars

(* The strings normalizeUrl is called with: up to MaxUrlLen tokens; an     *)
(* origin only in front, and followed by a path, a query or a fragment.    *)
UrlTokens == {HOST, "/", "a", "?", "#"}

UrlInputs ==
  {u \in UNION {[1..n -> UrlTokens] : n \in 0..MaxUrlLen} :
     /\ \A k \in 2..Len(u) : u[k] # HOST
     /\ (Len(u) >= 2 /\ u[1] = HOST) => u[2] \in {"/", "?", "#"}}

InitNormalize ==
  /\ InitStorage
  /\ sl = [i \in Procs |-> SLIdle]
  /\ b = [j \in Procs |-> BIdle]
  /\ cr = CrIdle
  /\ sc = ScIdle
  /\ tc = TcIdle
  /\ down = {}
  /\ faulty = FALSE
  /\ quota = MaxRequests
  /\ \E u \in UrlInputs : nz = [NzIdle EXCEPT !.pc = "called", !.url = u]

(* normalizeUrl applied to a string and then to its own result *)
SpecNormalize == InitNormalize /\ [][Normalize]_vars

(* The date texts a page can carry: month, day and year tokens in and out  *)
(* of the format, or no text; and the day of the call.                     *)
RawDates ==
  {<<>>} \cup {<<m, d, y>> : m \in {"January", "February", "Janvier"},
                              d \in {"1st", "22nd", "first"},
                              y \in {"2020", "2021", "MMXX"}}

Todays == {"2026-10-31", "2026-11-01"}

InitExtractDate ==
  /\ InitStorage
  /\ sl = [i \in Procs |-> SLIdle]
  /\ b = [j \in Procs |-> BIdle]
  /\ cr = CrIdle
  /\ nz = NzIdle
  /\ tc = TcIdle
  /\ down = {}
  /\ faulty = FALSE
  /\ quota = MaxRequests
  /\ \E raw \in RawDates, today \in Todays :
       sc = [ScIdle EXCEPT !.pc = "called", !.raw = raw, !.today = today]

(* the creation-date step of scrapeArticles over the date texts *)
SpecExtractDate == InitExtractDate /\ [][ExtractDate]_vars

(* The link tables the classifier is given: some of four URLs, each in Tag, *)
(* Category or Visited status; a tag and a category it would derive may    *)
(* exist already.                                                          *)
ClassifyUrls == <<T_NBD, T_RPG2, C_GM2, T_NONE>>

ClassifyTables ==
  {{[id |-> ToString(k), href |-> ClassifyUrls[k], status |-> st[k],
     processed_at |-> NULL, created_at |-> k] : k \in S} :
     S \in SUBSET (1..Len(ClassifyUrls)),
     st \in [1..Len(ClassifyUrls) -> {Tag, Category, Visited}]}

StoredCategory == [id |-> 1, name |-> "Game Mastering", description |-> "kept"]

StoredTag == [id |-> 1, name |-> "Rpg", slug |-> "rpg", description |-> "kept"]

InitClassify ==
  /\ found_links \in ClassifyTables
  /\ articles = {}
  /\ tags \in {{}, {StoredTag}}
  /\ categories \in {{}, {StoredCategory}}
  /\ article_tags = {}
  /\ article_categories = {}
  /\ comments = {}
  /\ nextId = 1
  /\ nextLinkId = Len(ClassifyUrls) + 1
  /\ down = {}
  /\ InitRunners
  /\ faulty \in BOOLEAN
  /\ quota = MaxRequests

(* requests to the link-process endpoint, one at a time *)
SpecClassify == InitClassify /\ [][Classifier]_vars

(* The link tables the four handlers share: an Article link to ingest, a   *)
(* Tag link without a slug, a Category link and a file link.               *)
SharedLinks ==
  {{[id |-> "1", href |-> L2, status |-> Article, processed_at |-> NULL, created_at |-> 1],
    [id |-> "2", href |-> T_NONE, status |-> Tag, processed_at |-> NULL, created_at |-> 2],
    [id |-> "3", href |-> C_GM2, status |-> Category, processed_at |-> NULL, created_at |-> 3],
    [id |-> "4", href |-> IMG, status |-> st, processed_at |-> NULL, created_at |-> 4]} :
     st \in {Pending, Visited}}

InitShared ==
  /\ found_links \in SharedLinks
  /\ articles = {}
  /\ tags = {}
  /\ categories = {}
  /\ article_tags = {}
  /\ article_categories = {}
  /\ comments = {}
  /\ nextId = 1
  /\ nextLinkId = 5
  /\ down \in {{}, {ROOT}}
  /\ InitRunners
  /\ faulty = FALSE
  /\ quota = MaxRequests

(* MaxRequests requests to the four endpoints, up to MaxProcs of them      *)
(* served at one time                                                      *)
Handlers == SingleLinkRunner \/ BatchRunner \/ Crawl \/ Classifier

SpecShared == InitShared /\ [][Handlers]_vars

----------------------------------------------------------------------------
(* Properties of the ingestion runners.                                    *)

LinkRow(id) == CHOOSE r \in found_links : r.id = id

(* the Article of href is stored with every category junction, tag         *)
(* junction and comment that the extraction of href yields                 *)
FullyIngested(href) ==
  \E a \in articles :
    /\ a.link = href
    /\ \A n \in Range(SitePage(href).categories) :
         \E c \in categories : c.name = n /\ <<a.id, c.id>> \in article_categories
    /\ \A n \in Range(SitePage(href).tags) :
         \E t \in tags : t.name = n /\ <<a.id, t.id>> \in article_tags
    /\ \A c \in Range(SitePage(href).comments) :
         [article_id |-> a.id, old_id |-> c] \in comments

(* C1: a link's processed_at is non-null only if its article was ingested  *)
(* in full: the Article row with all its category junctions, tag           *)
(* junctions and comments.                                                 *)
C1_ProcessedOnlyAfterFullIngestion ==
  \A r \in found_links : r.processed_at # NULL => FullyIngested(r.href)

(* C2: a Single-Link Runner invocation that failed after it inserted the   *)
(* Article ends with no Article row for the link and processed_at null.    *)
C2_FailureDeletesArticle ==
  \A i \in Procs :
    (sl[i].pc = "done" /\ sl[i].res = "throw" /\ sl[i].inserted)
      => /\ ~\E a \in articles : a.link = sl[i].link.href
         /\ LinkRow(sl[i].link.id).processed_at = NULL

(* C3: when the existence check finds an Article whose link is the         *)
(* selected href, the Single-Link Runner goes to the stamp, stamps         *)
(* processed_at of that LinkRecord and returns, having scraped and         *)
(* inserted nothing; there is never more than one Article per link.        *)
C3_IdempotencyGuard ==
  [][\A i \in Procs :
       /\ (sl[i].pc = "check" /\ sl'[i].pc # "check" /\ sl'[i].ret = "ok"
             /\ \E a \in articles : a.link = sl[i].link.href)
            => sl'[i].pc = "stampExisting"
       /\ (sl[i].pc = "stampExisting" /\ sl'[i].pc # "stampExisting")
            => /\ sl'[i].pc = "done"
               /\ sl'[i].res = "Article already exists"
               /\ ~sl'[i].inserted
               /\ sl'[i].page = NoPage
               /\ articles' = articles
               /\ sl'[i].ret = "ok" =>
                    \A r \in found_links' :
                      r.id = sl[i].link.id => r.processed_at # NULL
               /\ \A r \in found_links' :
                    r.id # sl[i].link.id => r \in found_links
       /\ \A a1, a2 \in articles' : a1.link = a2.link => a1 = a2
    ]_vars

(* C3 witness: an invocation returned "Article already exists" for a link  *)
(* that is now stamped and has its one Article                             *)
C3_Witness ==
  \E i \in Procs :
    /\ sl[i].pc = "done"
    /\ sl[i].res = "Article already exists"
    /\ LinkRow(sl[i].link.id).processed_at # NULL
    /\ Cardinality({a \in articles : a.link = sl[i].link.href}) = 1

(* no Single-Link Runner invocation is running and none of its callbacks   *)
(* is in flight                                                            *)
Quiescent ==
  \A i \in Procs :
    /\ sl[i].pc \in {"idle", "done"}
    /\ \A n \in TagNames : sl[i].stage[n] \notin {"upsert", "link"}

(* C4: after overlapping Single-Link Runner invocations there is at most   *)
(* one Article per link, and a stamped link still has its Article.         *)
C4_ConcurrentRunnersKeepArticle ==
  Quiescent =>
    /\ \A a1, a2 \in articles : a1.link = a2.link => a1 = a2
    /\ \A r \in found_links :
         r.processed_at # NULL => \E a \in articles : a.link = r.href

(* the selected link l of a batch is stamped *)
Stamped(l) == LinkRow(l.id).processed_at # NULL

(* C5: the Batch Runner returns one entry per selected link, in selection  *)
(* order: error with the href and a message for a link that failed,        *)
(* success for a link that was ingested and stamped; processed is the      *)
(* number of selected links.                                               *)
C5_BatchResultPerLink ==
  \A j \in Procs :
    b[j].pc = "done" =>
      /\ b[j].processed = Len(b[j].links)
      /\ Len(b[j].results) = Len(b[j].links)
      /\ \A k \in 1..Len(b[j].links) :
           /\ b[j].results[k].url = b[j].links[k].href
           /\ \/ /\ b[j].results[k].status = "success"
                 /\ b[j].results[k].error = ""
                 /\ Stamped(b[j].links[k])
              \/ /\ b[j].results[k].status = "error"
                 /\ b[j].results[k].error # ""

(* C5 witness: a run over two links, the first failed, the second was      *)
(* still processed                                                         *)
C5_Witness ==
  \E j \in Procs :
    /\ b[j].pc = "done"
    /\ Len(b[j].results) = 2
    /\ b[j].results[1].status = "error"
    /\ ~Stamped(b[j].links[1])
    /\ b[j].results[2].status = "success"

BatchPostInsert == {"categories", "categoryLink", "tags", "tagLink", "comments", "stamp"}

(* C6: a Batch Runner step that fails after the Article insert writes      *)
(* nothing: every row stored stays as it is, the Article among them, and   *)
(* no processed_at is set; after a successful scrape the runner goes to    *)
(* the insert whether or not an Article with that link exists.             *)
C6_BatchNoRollback ==
  [][\A j \in Procs :
       /\ (b[j].pc \in BatchPostInsert /\ Len(b'[j].results) > Len(b[j].results)
             /\ b'[j].results[Len(b'[j].results)].status = "error")
            => /\ articles' = articles
               /\ tags' = tags
               /\ categories' = categories
               /\ article_tags' = article_tags
               /\ article_categories' = article_categories
               /\ comments' = comments
               /\ found_links' = found_links
       /\ (b[j].pc = "scrape" /\ b'[j].pc # "scrape"
             /\ Len(b'[j].results) = Len(b[j].results))
            => b'[j].pc = "insert"
    ]_vars

(* C6 witness: a finished run has an error entry for a link whose Article  *)
(* and category junction are stored while the link is unprocessed          *)
C6_Witness ==
  \E j \in Procs :
    /\ b[j].pc = "done"
    /\ \E k \in 1..Len(b[j].results) :
         /\ b[j].results[k].status = "error"
         /\ ~Stamped(b[j].links[k])
         /\ \E a \in articles :
              /\ a.link = b[j].results[k].url
              /\ \E x \in article_categories : x[1] = a.id

----------------------------------------------------------------------------
(* Properties of the crawl.                                                *)

(* C7: a crawl over a table of Pending and Visited links terminates, and   *)
(* at termination no record is Pending: every record is Visited, Error or  *)
(* File.                                                                   *)
C7_CrawlTerminates ==
  (\A r \in found_links : r.status \in {Pending, Visited})
    => <>(/\ cr.pc = "done"
          /\ \A r \in found_links : r.status \in {Visited, Error, File})

(* C8: when a crawl invocation has ended, every LinkRecord whose href ends *)
(* in a file extension has status File, and no such href was fetched.      *)
C8_FileLinksEndAsFile ==
  cr.pc = "done" =>
    /\ \A r \in found_links : isFile(r.href) => r.status = File
    /\ \A k \in 1..Len(cr.fetched) : ~isFile(cr.fetched[k])

(* the run has dealt with url: it was popped and handled, or it is a file  *)
(* href recorded as File                                                   *)
Processed(url) ==
  \/ url \in cr.visited
  \/ isFile(url) /\ \A r \in found_links : r.href = url => r.status = File

(* C9: after a fetch failure the run goes on: it ends, and when it has     *)
(* ended every URL that was in the frontier at a fetch failure has been    *)
(* processed.                                                              *)
C9_FetchFailureDoesNotAbort ==
  /\ [](cr.pc = "done" => \A url \in cr.owed : Processed(url))
  /\ [](cr.owed # {} => <>(cr.pc = "done"))

(* C10: the step that handles a failed fetch of url inserts no link,       *)
(* queues no link and issues no insert, changes no other record and, when  *)
(* the port accepts the update, leaves every record of url with status     *)
(* Error.                                                                  *)
C10_FetchFailureMarksError ==
  [][(cr.pc = "update" /\ cr.res.null /\ cr' # cr)
       => /\ {r.id : r \in found_links'} = {r.id : r \in found_links}
          /\ {r.href : r \in found_links'} = {r.href : r \in found_links}
          /\ Range(cr'.toVisit) \subseteq Range(cr.toVisit)
          /\ cr'.pc # "insert"
          /\ cr'.finalAdd = <<>>
          /\ ~cr'.halted =>
               \A r \in found_links' : r.href = cr.url => r.status = Error
          /\ \A r \in found_links' : r.href # cr.url => r \in found_links
    ]_vars

(* C10 witness: the run goes on after a failed fetch whose record is Error *)
C10_Witness ==
  /\ cr.pc \in {"links", "update", "insert"}
  /\ \E r \in found_links : r.href \in cr.failed /\ r.status = Error
  /\ cr.toVisit # <<>>

(* C11: every status change of a LinkRecord during a crawl is Pending to     *)
(* Visited, Pending to Error, or any status to File.                       *)
C11_CrawlerTransitions ==
  [][\A r \in found_links : \A q \in found_links' :
       (r.id = q.id /\ r.status # q.status)
         => \/ q.status = File
            \/ r.status = Pending /\ q.status \in {Visited, Error}
    ]_vars

(* C12: the hrefs a crawl step queues and inserts as Pending are not yet   *)
(* stored under any status, and found_links never holds one href twice.    *)
C12_InsertSkipsStoredHrefs ==
  [][/\ (cr.pc = "update" /\ cr'.pc = "insert") =>
          \A l \in Range(cr'.finalAdd) : \A r \in found_links : r.href # l
     /\ \A r1, r2 \in found_links' : r1.href = r2.href => r1 = r2
    ]_vars

(* no loaded record is Pending and none is a Visited record of the root *)
NothingToResume(rows) ==
  \A r \in rows : r.status # Pending /\ ~(r.status = Visited /\ r.href = ROOT)

(* C13: an invocation that loads a table with no Pending record and no     *)
(* Visited record of the root (the empty table included) goes on to its    *)
(* loop with the root as the frontier, and the first page request of that  *)
(* loop is the root's.                                                     *)
C13_RootSeeded ==
  [][/\ (cr.pc = "idle" /\ cr'.pc # "idle" /\ ~cr'.halted
           /\ NothingToResume(found_links))
          => \/ cr'.pc \in {"deleting", "marking"}
             \/ cr'.pc = "links" /\ cr'.toVisit = <<ROOT>> /\ cr'.url = ROOT
     /\ (cr.pc \in {"deleting", "marking"} /\ cr'.pc \notin {"deleting", "marking"}
           /\ NothingToResume(Range(cr.existing)))
          => cr'.pc = "links" /\ cr'.toVisit = <<ROOT>> /\ cr'.url = ROOT
     /\ (cr.pc = "links" /\ cr.toVisit = <<ROOT>> /\ cr.fetched = <<>>
           /\ cr'.pc = "update")
          => cr'.fetched = <<ROOT>>
    ]_vars

(* C14: the step in which the port returns an error ends the run and       *)
(* writes nothing; from then on the run fetches nothing and writes         *)
(* nothing.                                                                *)
C14_StorageErrorHalts ==
  [][/\ (~cr.halted /\ cr'.halted)
          => /\ cr'.pc = "done"
             /\ found_links' = found_links
             /\ cr'.fetched = cr.fetched
     /\ cr.halted
          => /\ found_links' = found_links
             /\ Len(cr'.fetched) <= Len(cr.fetched)
    ]_vars

(* C14 witness: a run ended on a storage error after a fetch, with URLs    *)
(* left in its frontier                                                    *)
C14_Witness ==
  /\ cr.halted
  /\ cr.pc = "done"
  /\ cr.fetched # <<>>
  /\ cr.toVisit # <<>>

----------------------------------------------------------------------------
(* Properties of the maintenance phases of the crawl.                      *)

(* the table PHASE 2 and PHASE 3 leave when they are given rows and the    *)
(* port applies every call                                                 *)
Maintained(rows) ==
  {IF r.id \in FileIds(rows) THEN [r EXCEPT !.status = File] ELSE r :
     r \in {x \in rows : x.id \notin ToDeleteIds(rows)}}

(* the maintenance phases of an invocation are over *)
InLoop == cr.pc \in {"links", "update", "insert", "spin", "done"}

(* C15: when the maintenance phases of an invocation have been applied,    *)
(* the table is the one they make of the loaded table, and applying them   *)
(* again to it changes nothing.                                            *)
C15_MaintenanceIdempotent ==
  [][(cr.pc \in {"deleting", "marking"} /\ cr'.pc \notin {"deleting", "marking"})
       => /\ found_links' = Maintained(Range(cr.existing))
          /\ Maintained(found_links') = found_links'
    ]_vars

(* C15 witness: the phases are over, duplicates were deleted and a file    *)
(* record was marked                                                       *)
C15_Witness ==
  /\ InLoop
  /\ cr.fetched = <<>>
  /\ Cardinality(found_links) < MaintRows
  /\ \E r \in found_links : r.status = File

(* C16: once the maintenance phases have run, every stored href equals its *)
(* normalized form.                                                        *)
C16_NoUnnormalizedHrefLeft ==
  InLoop => \A r \in found_links : normalizeUrl(r.href) = r.href

----------------------------------------------------------------------------
(* Properties of normalizeUrl.                                             *)


(* a string new URL() parses: it starts with a scheme and host *)
WellFormed(u) == Len(u) > 0 /\ u[1] \in Origins

(* C17: normalizeUrl applied to its own result returns that result.        *)
C17_NormalizeIdempotent ==
  [][(nz.pc = "returned" /\ nz'.pc # "returned")
       => nz'.pc = "again" /\ nz'.ret = nz.ret]_vars

(* C17 witness: a string with a query was normalized twice *)
C17_Witness ==
  /\ nz.pc = "again"
  /\ \E k \in 1..Len(nz.url) : nz.url[k] = "?"
  /\ nz.ret # nz.url

(* C18: a call of normalizeUrl throws nothing; for a well-formed URL the   *)
(* result has no query and no fragment and is the URL up to its first "?"  *)
(* or "#" (a bare origin gets the path "/"); a malformed string comes back *)
(* unchanged.                                                              *)
C18_NormalizeNeverThrows ==
  /\ nz.pc # "threw" /\ ~nz.threw
  /\ nz.pc = "returned" =>
       IF WellFormed(nz.url)
       THEN /\ \A k \in 1..Len(nz.ret) : nz.ret[k] \notin {"?", "#"}
            /\ \E n \in 1..Len(nz.url) :
                 /\ \A k \in 1..n : nz.url[k] \notin {"?", "#"}
                 /\ n < Len(nz.url) => nz.url[n + 1] \in {"?", "#"}
                 /\ nz.ret = IF n = 1 THEN <<nz.url[1], "/">> ELSE SubSeq(nz.url, 1, n)
       ELSE nz.ret = nz.url

(* C18 witness: a call with a malformed string that carries a query has   *)
(* returned                                                                *)
C18_Witness ==
  /\ nz.pc = "returned"
  /\ ~WellFormed(nz.url)

----------------------------------------------------------------------------
(* Properties of the Taxonomy Classifier.                                  *)

(* C19: the step that handles a link whose href the regex does not match   *)
(* inserts no taxonomy row, changes no other link and, when the port       *)
(* accepts the update, leaves the link in Error status; a classifier run   *)
(* never loads a link in Error status.                                     *)
C19_NoMatchMarksError ==
  [][/\ (/\ tc.pc = "loop" /\ tc.i <= Len(tc.links) /\ tc'.i = tc.i + 1
         /\ MatchAt(tc.links[tc.i].href, tc.table) = {})
          => /\ tags' = tags
             /\ categories' = categories
             /\ \A r \in found_links' :
                  IF r.id = tc.links[tc.i].id
                  THEN tc'.ret = "ok" => r.status = Error
                  ELSE r \in found_links
             /\ {r.id : r \in found_links'} = {r.id : r \in found_links}
     /\ tc'.links # tc.links
          => \A k \in 1..Len(tc'.links) :
               \A r \in found_links : r.id = tc'.links[k].id => r.status # Error
    ]_vars

(* C19 witness: a later run has loaded its Tag links, and the link that an *)
(* earlier run put in Error status is not among them                       *)
C19_Witness ==
  /\ tc.pc = "loop" /\ tc.table = "tags" /\ tc.i = 1 /\ tc.ret = "ok"
  /\ \E r \in found_links :
       /\ r.href = T_NONE /\ r.status = Error
       /\ \A k \in 1..Len(tc.links) : tc.links[k].id # r.id

(* the name the classifier is to derive from each href *)
ExpectedName(href) ==
  CASE href = T_NBD -> "Node Based Design"
    [] href = T_RPG2 -> "Rpg"
    [] href = C_GM2 -> "Game Mastering"
    [] OTHER -> ""

(* C20: when a classifier run over a port without faults has ended, each   *)
(* Tag link of the /tag/{slug} shape has a row in tags, and each Category  *)
(* link of the /category/{slug} shape a row in categories, named after its *)
(* slug; a step for a name that is already stored adds nothing.            *)
C20_TaxonomyRowsCreated ==
  [][/\ (tc'.pc = "done" /\ ~faulty)
          => \A r \in found_links' :
               /\ (r.status = Tag /\ MatchAt(r.href, "tags") # {})
                    => \E t \in tags' : t.name = ExpectedName(r.href)
               /\ (r.status = Category /\ MatchAt(r.href, "categories") # {})
                    => \E c \in categories' : c.name = ExpectedName(r.href)
     /\ (/\ tc.pc = "loop" /\ tc.i <= Len(tc.links) /\ tc'.i = tc.i + 1
         /\ \E x \in tags \cup categories : x.name = ExpectedName(tc.links[tc.i].href))
          => tags' = tags /\ categories' = categories
    ]_vars

(* C21: a classifier step changes no stored tag row and no stored category *)
(* row: every row is still there with the same id, name, slug and          *)
(* description, also when the step derived the name of that row.           *)
C21_ExistingRowsUntouched ==
  [][/\ \A t \in tags : t \in tags'
     /\ \A c \in categories : c \in categories'
     /\ \A t \in tags' : t \notin tags => \A u \in tags : u.id # t.id /\ u.name # t.name
     /\ \A c \in categories' :
          c \notin categories => \A u \in categories : u.id # c.id /\ u.name # c.name
    ]_vars

(* C21 witness: a run over a port without faults handled the Tag link and  *)
(* the Category link whose names are stored, and the stored rows are as    *)
(* they were                                                               *)
C21_Witness ==
  /\ tc.pc = "done" /\ ~faulty
  /\ \E r \in found_links : r.href = T_RPG2 /\ r.status = Tag
  /\ \E r \in found_links : r.href = C_GM2 /\ r.status = Category
  /\ StoredTag \in tags
  /\ StoredCategory \in categories

----------------------------------------------------------------------------
(* Properties that compare the two runners.                                *)

(* storage holds, for the link l, what the extraction of l.href yields and *)
(* nothing else: the one Article, a category row and a junction per        *)
(* category name, a tag row (empty description, generated slug) and a      *)
(* junction per tag name, the comments, and processed_at set               *)
IngestedOnce(l) ==
  LET page == SitePage(l.href)
  IN /\ \E a \in articles :
          /\ articles = {a}
          /\ a.link = page.link /\ a.old_id = page.old_id
          /\ article_categories = {<<a.id, c.id>> : c \in categories}
          /\ article_tags = {<<a.id, t.id>> : t \in tags}
          /\ comments = {[article_id |-> a.id, old_id |-> c] : c \in Range(page.comments)}
     /\ {[name |-> c.name, description |-> c.description] : c \in categories}
          = {[name |-> n, description |-> ""] : n \in Range(page.categories)}
     /\ {[name |-> t.name, slug |-> t.slug, description |-> t.description] : t \in tags}
          = {[name |-> n, slug |-> BatchSlug(n), description |-> ""] :
               n \in Range(page.tags)}
     /\ LinkRow(l.id).processed_at # NULL

(* the invocation is of the only request the server has received: it      *)
(* started from the initial storage and ran alone                          *)
FirstWriter == quota = MaxRequests - 1 /\ nextId = 2

(* a Batch Runner invocation that started from the initial storage has     *)
(* ended with success for its one link                                     *)
BatchSucceeded(j) ==
  /\ b[j].pc = "done" /\ FirstWriter
  /\ Len(b[j].results) = 1 /\ b[j].results[1].status = "success"

(* a Single-Link Runner invocation that started from the initial storage   *)
(* has ended with success                                                  *)
SingleSucceeded(i) ==
  /\ sl[i].pc = "done" /\ FirstWriter
  /\ sl[i].res = "Successfully processed link"

(* what a successful Batch Runner invocation leaves *)
BatchLeavesIngested ==
  \A j \in Procs : BatchSucceeded(j) => IngestedOnce(b[j].links[1])

(* C22: from the same storage with one unprocessed Article link, a         *)
(* successful invocation of either runner leaves the same storage: the     *)
(* Article, its category and tag rows and junctions, its comments, and     *)
(* processed_at set.                                                       *)
C22_RunnersLeaveSameStorage ==
  /\ \A j \in Procs : BatchSucceeded(j) => IngestedOnce(b[j].links[1])
  /\ \A i \in Procs : SingleSucceeded(i) => IngestedOnce(sl[i].link)

(* C23: the link a Single-Link Runner invocation selects is an unprocessed *)
(* Article link with the smallest created_at; every row the invocation     *)
(* writes or deletes belongs to that link; an invocation that finds no     *)
(* unprocessed Article link ends at once and writes nothing.               *)
C23_SelectsOldestOnly ==
  [][\A i \in Procs :
       /\ (sl[i].pc = "idle" /\ sl'[i].pc = "check")
            => \E r \in found_links :
                 /\ r.id = sl'[i].link.id /\ r.href = sl'[i].link.href
                 /\ r.status = Article /\ r.processed_at = NULL
                 /\ \A q \in found_links :
                      (q.status = Article /\ q.processed_at = NULL)
                        => r.created_at <= q.created_at
       /\ (/\ sl[i].pc = "idle" /\ sl'[i].pc # "idle"
           /\ ~\E q \in found_links : q.status = Article /\ q.processed_at = NULL)
            => sl'[i].pc = "done" /\ UNCHANGED storageVars
       /\ (sl[i].pc # "idle" /\ sl'[i] # sl[i])
            => /\ \A r \in found_links' : r.id # sl[i].link.id => r \in found_links
               /\ {r.id : r \in found_links'} = {r.id : r \in found_links}
               /\ \A a \in articles' \ articles : a.link = sl[i].link.href
               /\ \A a \in articles \ articles' : a.link = sl[i].link.href
               /\ \A x \in article_tags' \ article_tags : x[1] = sl[i].art
               /\ \A x \in (article_tags \ article_tags')
                            \cup (article_categories \ article_categories') :
                    \E a \in articles : a.id = x[1] /\ a.link = sl[i].link.href
               /\ \A c \in comments \ comments' :
                    \E a \in articles : a.id = c.article_id /\ a.link = sl[i].link.href
               /\ categories' = categories
               /\ article_categories' \subseteq article_categories
               /\ comments' \subseteq comments
    ]_vars

(* C23 witness: with two unprocessed Article links stored, an invocation   *)
(* selected the older one and has stamped it, the other still unprocessed  *)
C23_Witness ==
  \E i \in Procs :
    /\ sl[i].pc = "done" /\ sl[i].res = "Successfully processed link"
    /\ sl[i].link.id = "1"
    /\ LinkRow("1").processed_at # NULL
    /\ LinkRow("2").processed_at = NULL

----------------------------------------------------------------------------
(* Properties of the handlers' scheduling.                                 *)

(* the tag callbacks of invocation i whose storage call has been issued    *)
(* and has not returned, or whose next call is about to be issued          *)
SL_InFlight(i) == {n \in TagNames : sl[i].stage[n] \in {"upsert", "link"}}

(* C24: within one invocation at most one storage or network operation is  *)
(* in flight: a Single-Link Runner invocation never has the storage calls  *)
(* of two tags outstanding at once.                                        *)
C24_NoParallelFanOut ==
  \A i \in Procs : Cardinality(SL_InFlight(i)) <= 1

----------------------------------------------------------------------------
(* Properties of the runners' taxonomy upserts.                            *)

(* C25: an upsert of a tag or category whose name is stored leaves the     *)
(* stored row as it is (id, slug, description), and the ingestion goes on  *)
(* to the junction row with the stored row's id.                           *)
C25_UpsertKeepsExistingRow ==
  [][/\ \A t \in tags : t \in tags'
     /\ \A c \in categories : c \in categories'
     /\ \A j \in Procs :
          (b[j].pc = "tagLink" /\ b'[j].pc = "tags" /\ b'[j].k = b[j].k + 1)
            => \E t \in tags : /\ t.name = b[j].page.tags[b[j].k]
                               /\ <<b[j].art, t.id>> \in article_tags'
     /\ \A i \in Procs : \A n \in TagNames :
          (/\ sl[i].stage[n] = "upsert" /\ sl'[i].stage[n] # "upsert"
           /\ sl'[i].pc # "idle"
           /\ \E t \in tags : t.name = n)
            => sl'[i].stage[n] = "link"
    ]_vars

----------------------------------------------------------------------------
(* Properties of the extraction.                                           *)

(* C26: the extraction of a page without its content container fails: the *)
(* Batch Runner adds an error entry for the link and the Single-Link       *)
(* Runner ends by throwing, the step writes nothing, and no Article is     *)
(* ever stored and no processed_at ever set for such a link.               *)
C26_MissingContainerWritesNothing ==
  [][/\ \A j \in Procs :
          (b[j].pc = "scrape" /\ ~SitePage(b[j].links[b[j].i].href).ok /\ b'[j] # b[j])
            => /\ UNCHANGED storageVars
               /\ b'[j].results =
                    Append(b[j].results,
                           [url |-> b[j].links[b[j].i].href, status |-> "error",
                            error |-> "Article container not found"])
     /\ \A i \in Procs :
          (sl[i].pc = "scrape" /\ ~SitePage(sl[i].link.href).ok /\ sl'[i] # sl[i])
            => /\ UNCHANGED storageVars
               /\ sl'[i].pc = "done" /\ sl'[i].res = "throw"
     /\ \A a \in articles' : \E r \in found_links' : r.href = a.link /\ SitePage(r.href).ok
     /\ \A r \in found_links' : ~SitePage(r.href).ok => r.processed_at = NULL
    ]_vars

(* C26 witness: a Batch Runner invocation ended with an error entry for    *)
(* the link without container after it ingested the other link             *)
C26_Witness ==
  /\ \E j \in Procs :
       /\ b[j].pc = "done"
       /\ Len(b[j].results) = 2
       /\ \E k \in 1..2 :
            /\ b[j].results[k] = [url |-> L3, status |-> "error",
                                  error |-> "Article container not found"]
            /\ b[j].results[3 - k].status = "success"
  /\ \A a \in articles : a.link # L3

(* C27: when the publish-date text cannot be parsed, the extraction does   *)
(* not throw and the article's created_at is the current date.             *)
C27_UnparsedDateFallsBackToToday ==
  (sc.pc = "returned" /\ ~parse(sc.raw).valid)
    => ~sc.threw /\ sc.created_at = sc.today

----------------------------------------------------------------------------
(* Properties of the endpoints' responses.                                 *)

(* C28: an invocation whose processing of an item failed still ends with a *)
(* normal response that reports the failure in its body: the Batch Runner  *)
(* returns one entry per link and the Single-Link Runner returns a message *)
(* instead of throwing.                                                    *)
C28_FailureReportedInBody ==
  /\ \A j \in Procs :
       b[j].pc = "done"
         => b[j].processed = Len(b[j].links) /\ Len(b[j].results) = Len(b[j].links)
  /\ \A i \in Procs : sl[i].pc = "done" => sl[i].res # "throw"

----------------------------------------------------------------------------
(* Properties of the Batch Runner's order of writes.                       *)

(* the step after each step of the per-link sequence, when it succeeded *)
BatchOrder ==
  {<<"scrape", "insert">>, <<"insert", "categories">>,
   <<"categories", "categoryLink">>, <<"categoryLink", "categories">>,
   <<"categories", "tags">>, <<"tags", "tagLink">>, <<"tagLink", "tags">>,
   <<"tags", "comments">>, <<"comments", "stamp">>}

(* the step of slot j pushed an entry of this status for the link in hand *)
BatchPushed(j, status) ==
  /\ Len(b'[j].results) = Len(b[j].results) + 1
  /\ b'[j].results[Len(b'[j].results)].status = status
  /\ b'[j].results[Len(b'[j].results)].url = b[j].links[b[j].i].href

(* C29: for each link the Batch Runner goes through extract, Article       *)
(* insert, upsert and junction per category, upsert and junction per tag,  *)
(* comments insert and stamp in this order; each step writes its own table *)
(* only; junction and comment rows are written for a stored Article; and   *)
(* processed_at is written at the stamp step only, for the link in hand.   *)
C29_BatchWriteOrder ==
  [][\A j \in Procs :
       (b'[j] # b[j] /\ b[j].pc \in {"scrape", "insert"} \cup BatchPostInsert)
         => /\ \/ BatchPushed(j, "error") /\ UNCHANGED storageVars
               \/ b[j].pc = "stamp" /\ BatchPushed(j, "success")
               \/ /\ b'[j].results = b[j].results /\ b'[j].i = b[j].i
                  /\ <<b[j].pc, b'[j].pc>> \in BatchOrder
                  /\ (b[j].pc = "categories" /\ b'[j].pc = "tags")
                       => b[j].k = Len(b[j].page.categories) + 1
                  /\ (b[j].pc = "tags" /\ b'[j].pc = "comments")
                       => b[j].k = Len(b[j].page.tags) + 1
                  /\ b'[j].pc = "categoryLink" => b'[j].k \in 1..Len(b[j].page.categories)
                  /\ b'[j].pc = "tagLink" => b'[j].k \in 1..Len(b[j].page.tags)
                  /\ b[j].pc \in {"categoryLink", "tagLink"} => b'[j].k = b[j].k + 1
            /\ articles' # articles => b[j].pc = "insert"
            /\ categories' # categories => b[j].pc = "categories"
            /\ tags' # tags => b[j].pc = "tags"
            /\ article_categories' # article_categories
                 => /\ b[j].pc = "categoryLink"
                    /\ \E a \in articles : a.id = b[j].art
                    /\ \A x \in article_categories' \ article_categories : x[1] = b[j].art
            /\ article_tags' # article_tags
                 => /\ b[j].pc = "tagLink"
                    /\ \E a \in articles : a.id = b[j].art
                    /\ \A x \in article_tags' \ article_tags : x[1] = b[j].art
            /\ comments' # comments
                 => /\ b[j].pc = "comments"
                    /\ \E a \in articles : a.id = b[j].art
                    /\ \A c \in comments' \ comments : c.article_id = b[j].art
            /\ found_links' # found_links
                 => /\ b[j].pc = "stamp"
                    /\ found_links' = StampProcessed(b[j].links[b[j].i].id)
    ]_vars

(* C29 witness: a run has ended with success for the link whose page has a *)
(* category, two tags and a comment, all stored, and the link is stamped   *)
C29_Witness ==
  /\ \E j \in Procs :
       /\ b[j].pc = "done"
       /\ \E k \in 1..Len(b[j].results) :
            /\ b[j].results[k].url = L1 /\ b[j].results[k].status = "success"
            /\ Stamped(b[j].links[k])
  /\ FullyIngested(L1)
  /\ \E c \in comments : c.old_id = 101

----------------------------------------------------------------------------
(* Properties of the crawl's request rate.                                 *)

(* C30: every page fetch of a crawl run comes right after a completed      *)
(* delay of delayMs (1000 ms): the run never issues two fetches without a  *)
(* delay between them, and it fetches exactly the URLs it recorded.        *)
C30_DelayBeforeEveryFetch ==
  /\ \A k \in 1..Len(cr.log) :
       cr.log[k].op = "fetch" => k > 1 /\ cr.log[k - 1] = Delayed(1000)
  /\ SelectSeq(cr.log, LAMBDA e : e.op = "fetch")
       = [k \in 1..Len(cr.fetched) |-> Fetched(cr.fetched[k])]

(* C30 witness: a run has fetched two pages *)
C30_Witness ==
  /\ Len(cr.fetched) >= 2
  /\ Len(cr.log) >= 4
  /\ cr.log[3] = Delayed(1000) /\ cr.log[4].op = "fetch"

----------------------------------------------------------------------------
(* Properties of the hrefs a crawl queues.                                 *)

(* new URL(url).origin: the scheme and host, which end where the path, the *)
(* query or the fragment begins                                            *)
Origin(url) ==
  LET ends == {k \in 1..Len(url) : url[k] \in {"/", "?", "#"}}
  IN IF ends = {} THEN url
     ELSE SubSeq(url, 1, (CHOOSE k \in ends : \A m \in ends : k <= m) - 1)

(* C31: every href a crawl step adds to the frontier is in normalized      *)
(* form, has the origin of the root URL, and was neither visited nor in    *)
(* the frontier when it was added; every href a crawl step stores as a new *)
(* Pending record is one of the hrefs just added to the frontier.          *)
C31_QueuedHrefsNormalizedSameOrigin ==
  [][/\ cr.pc = "update" =>
          \A l \in Range(cr'.toVisit) \ Range(cr.toVisit) :
            /\ normalizeUrl(l) = l
            /\ Origin(l) = Origin(ROOT)
            /\ l \notin cr'.visited
            /\ l \in Range(cr'.finalAdd)
     /\ cr.pc = "insert" =>
          \A x \in found_links' :
            (\A y \in found_links : y.id # x.id)
              => x.href \in Range(cr.finalAdd) /\ x.status = Pending
    ]_vars

----------------------------------------------------------------------------
(* Properties of the crawl's queue and of its maintenance phases.          *)

(* C32: when an invocation builds its queue, the href of a record that its *)
(* maintenance phase has just set to File status enters neither the        *)
(* visited set nor the frontier.                                           *)
C32_FileRecordsSkippedAtRehydration ==
  [][(cr.pc = "marking" /\ cr'.pc # "marking")
       => \A r \in Range(cr.existing) :
            (/\ r.id \in FileIds(Range(cr.existing))
             /\ \E q \in found_links' : q.id = r.id /\ q.status = File)
              => r.href \notin cr'.visited /\ r.href \notin Range(cr'.toVisit)
    ]_vars

(* C33: of the loaded records that share an href, exactly one is left when *)
(* the deletes of the maintenance phase are over.                          *)
C33_OneCopyOfDuplicateKept ==
  [][(cr.pc = "deleting" /\ cr'.pc # "deleting")
       => \A r \in Range(cr.existing) :
            Cardinality({q \in Range(cr.existing) : q.href = r.href}) > 1
              => Cardinality({q \in found_links' : q.href = r.href}) = 1
    ]_vars

(* the same-origin links of the page at url, normalized, as a fetch of url *)
(* yields them                                                             *)
LinksOn(url) == Range(FilterAnchors(Anchors(url), {}, <<>>))

(* C34: starting from a table without Visited records, whenever a run has  *)
(* ended without a storage error, every link found on a URL that is stored *)
(* as Visited has a record or was handled by that run: links found on a    *)
(* URL are not lost when an earlier run halted after it marked the URL     *)
(* Visited.                                                                *)
C34_HaltLosesNoLinks ==
  (\A r \in found_links : r.status # Visited)
    => [](cr.pc = "done" /\ ~cr.halted
            => \A r \in found_links :
                 (r.status = Visited /\ r.href \notin down)
                   => \A l \in LinksOn(r.href) :
                        \/ \E q \in found_links : q.href = l
                        \/ l \in cr.visited)

(* C35: while a crawl run is in its loop, and when it has ended, no URL is *)
(* both in the visited set and in the frontier, the frontier holds no URL  *)
(* twice, and the run has fetched no URL twice.                            *)
C35_VisitedFrontierDisjoint ==
  InLoop =>
    /\ cr.visited \cap Range(cr.toVisit) = {}
    /\ \A j, k \in 1..Len(cr.toVisit) : cr.toVisit[j] = cr.toVisit[k] => j = k
    /\ \A j, k \in 1..Len(cr.fetched) : cr.fetched[j] = cr.fetched[k] => j = k

(* C35 witness: a run that has fetched two URLs, one of which links to     *)
(* itself and to the other, still has URLs in its frontier                 *)
C35_Witness ==
  /\ cr.pc \in {"links", "update", "insert", "spin"}
  /\ {PA, PB} \subseteq Range(cr.fetched)
  /\ cr.toVisit # <<>>

(* C36: when a crawl run ends normally, every URL it fetched has a stored  *)
(* LinkRecord with that href whose status is the outcome of the fetch:     *)
(* Error if the fetch failed, Visited if it succeeded.                     *)
C36_FetchedUrlHasOutcomeRecord ==
  (cr.pc = "done" /\ ~cr.halted) =>
    \A u \in Range(cr.fetched) :
      \E r \in found_links :
        /\ r.href = u
        /\ r.status = IF u \in cr.failed THEN Error ELSE Visited

(* C37: when a Batch run starts while no other is running, storage would   *)
(* accept the Article insert of every link it selects, also of a link      *)
(* whose Article row was stored by an earlier run that then failed, so     *)
(* that a run without new faults goes on to complete and stamp the link.   *)
C37_RetryCompletesPartialLink ==
  [][\A j \in Procs :
       (/\ b[j].pc = "idle" /\ b'[j].pc = "scrape"
        /\ \A h \in Procs \ {j} : b[h].pc \in {"idle", "done"})
         => \A k \in 1..Len(b'[j].links) :
              SitePage(b'[j].links[k].href).ok
                => ~ArticleInsertConflict(SitePage(b'[j].links[k].href).link,
                                          SitePage(b'[j].links[k].href).old_id)
    ]_vars

(* C38: under repeated Single-Link invocations that again and again select *)
(* a link, the unprocessed Article link L2, whose page can be ingested, is *)
(* eventually stamped, unless an attempt on L2 itself fails; older links   *)
(* may fail on every attempt.                                              *)
C38_ProcessableLinkEventuallyStamped ==
  ([]<>(\E i \in Procs : sl[i].pc = "check"))
    => <>(\/ \E r \in found_links : r.href = L2 /\ r.processed_at # NULL
          \/ \E i \in Procs : sl[i].pc # "idle" /\ sl[i].link.href = L2)

(* the regex of the link's status matches its href *)
Matched(r) ==
  \/ r.status = Tag /\ Slug(r.href, "tags") # <<>>
  \/ r.status = Category /\ Slug(r.href, "categories") # <<>>

(* C39: over a port that does not fail, a classifier run that follows a    *)
(* completed run changes no LinkRecord, no tag and no category, and no     *)
(* step of any run changes the status of a link whose href matches.        *)
C39_ClassifierIdempotent ==
  [][~faulty =>
       /\ tc.ran => <<found_links, tags, categories>>' = <<found_links, tags, categories>>
       /\ \A r \in found_links :
            Matched(r) => \E q \in found_links' : q.id = r.id /\ q.status = r.status]_vars

(* C39 witness: a second run has ended; the first created a category, set  *)
(* an unmatched Tag link to Error and left a matched Tag link a Tag        *)
C39_Witness ==
  /\ ~faulty /\ tc.ran /\ tc.pc = "done"
  /\ \E c \in categories : c.name = "Game Mastering" /\ c.description = ""
  /\ \E r \in found_links : r.href = T_NONE /\ r.status = Error
  /\ \E r \in found_links : r.href = T_NBD /\ r.status = Tag

(* the link an in-flight runner invocation is ingesting has this id *)
Ingesting(id) ==
  \/ \E i \in Procs : sl[i].pc # "idle" /\ sl[i].link.id = id
  \/ \E j \in Procs : /\ b[j].pc # "idle" /\ b[j].i \in 1..Len(b[j].links)
                      /\ b[j].links[b[j].i].id = id

(* C40: a step of the Single-Link Runner or the Batch Runner inserts and   *)
(* deletes no LinkRecord and changes no field of one except processed_at   *)
(* of the link it is ingesting; a step of the crawler or the classifier    *)
(* changes no processed_at (a record it inserts has none) and no Article,  *)
(* junction or comment row.                                                *)
C40_WritersKeepToTheirTables ==
  [][/\ (sl' # sl \/ b' # b) =>
          /\ {q.id : q \in found_links'} = {r.id : r \in found_links}
          /\ \A r \in found_links : \E q \in found_links' :
               /\ q.id = r.id /\ q.href = r.href /\ q.status = r.status
               /\ q.created_at = r.created_at
               /\ q.processed_at # r.processed_at => Ingesting(r.id)
     /\ (cr' # cr \/ tc' # tc) =>
          /\ <<articles, article_tags, article_categories, comments>>'
               = <<articles, article_tags, article_categories, comments>>
          /\ \A q \in found_links' :
               IF \E r \in found_links : r.id = q.id
               THEN \A r \in found_links : r.id = q.id => q.processed_at = r.processed_at
               ELSE q.processed_at = NULL]_vars

(* C40 witness: while a runner that has inserted its Article is still at   *)
(* work, the crawler has stored a discovered link; the Article link is     *)
(* stamped                                                                 *)
C40_Witness ==
  /\ \E r \in found_links : r.href = L2 /\ r.processed_at # NULL /\ r.status = Article
  /\ articles # {}
  /\ \E r \in found_links : r.href = PA /\ r.status = Pending

====
